---- MODULE Spec2Model ----
(***************************************************************************)
(* Model of mininet/fault_injectors.py: the three fault injectors          *)
(* (MultiInjector, LinkInjector, NodeInjector), each run as one asyncio    *)
(* task on a single-threaded event loop.                                   *)
(*                                                                         *)
(* Conventions.                                                            *)
(*  - A shell command is a sequence of string pieces, concatenated exactly *)
(*    as the Python source concatenates them (Python "+" is \o here).      *)
(*    A "|" of a command is always a piece of its own.                     *)
(*  - Durations are integer milliseconds.  The source divides floats       *)
(*    (injection_time / (period_ms / 1000)) and truncates with int(); for  *)
(*    the values drawn here the float quotient truncates to the integer    *)
(*    quotient of the millisecond values.                                  *)
(*  - Numeric strings of fault_args / fault_pattern_args are drawn as the  *)
(*    integers int() parses them to.                                       *)
(*  - A Python exception that no handler of the file catches ends the      *)
(*    task: pc = "crashed".                                                *)
(***************************************************************************)
EXTENDS Integers, Sequences, FiniteSets, TLC

VARIABLES cfg, pc, loc, trace, running, retcode

vars == <<cfg, pc, loc, trace, running, retcode>>

(***************************************************************************)
(* Bounds of the model.                                                    *)
(***************************************************************************)
\* injection_time is drawn from 0 .. MaxInjection whole seconds
MaxInjection == 2

\* Python's None
None == "None"

\* no task is running: the event loop is idle
Idle == "idle"

(***************************************************************************)
(* Python helpers.                                                         *)
(***************************************************************************)
\* `sub in s` for the strings of the model: among the fault types, the fault
\* patterns and the protocol tags drawn below no value is a proper substring
\* of another, so the substring test is equality.
Contains(sub, s) == s = sub

Min(a, b) == IF a <= b THEN a ELSE b

Max(a, b) == IF a >= b THEN a ELSE b

\* a cycle count that rounds the quotient up instead of truncating it
IntDivRoundedUp(a, b) == (a + b - 1) \div b

\* int(a / b) of Python for a >= 0 and b > 0: truncation of the quotient
IntDiv(a, b) == a \div b

\* str(n) of an integer
Str(n) == ToString(n)

\* the events of the trace
Ev(t, kind, enable, cmd, pargs, arg) ==
    [task |-> t, kind |-> kind, enable |-> enable, cmd |-> cmd, pargs |-> pargs, arg |-> arg]

\* await asyncio.sleep(ms): the task requests a sleep and is suspended
SleepEv(t, ms) == Ev(t, "sleep", FALSE, <<>>, <<>>, ms)

\* log.error(...)
ErrorEv(t) == Ev(t, "error", FALSE, <<>>, <<>>, 0)

\* call(command, shell=True) / run(command, shell=True)
CmdEv(t, enable, cmd) == Ev(t, "cmd", enable, cmd, <<>>, 0)

\* FaultLogger.set_fault_active(tag, type, command, retcode)
ActiveEv(t, cmd) == Ev(t, "active", TRUE, cmd, <<>>, 0)

\* FaultLogger.set_fault_inactive(tag)
InactiveEv(t) == Ev(t, "inactive", FALSE, <<>>, <<>>, 0)

\* a call of the command synthesis with the pattern arguments it is given
SynthEv(t, enable, pargs) == Ev(t, "synth", enable, <<>>, pargs, 0)

\* asyncio.sleep(delay): a delay <= 0 yields to the loop once and returns
SleepElapsed(ms) == IF ms <= 0 THEN 0 ELSE ms

(***************************************************************************)
(* Results of the synthesis functions: a value, None, or an exception.     *)
(***************************************************************************)
\* a returned value
Ok(v) == [exc |-> FALSE, err |-> FALSE, none |-> FALSE, val |-> v]

\* an IndexError / TypeError raised by an index into a list that is too short
Raise == [exc |-> TRUE, err |-> FALSE, none |-> FALSE, val |-> <<>>]

\* log.error(...) and a returned None
NoneWithError == [exc |-> FALSE, err |-> TRUE, none |-> TRUE, val |-> <<>>]

(***************************************************************************)
(* LinkInjector: command synthesis.                                        *)
(***************************************************************************)
\* self.target_protocol_table
target_protocol_table ==
    [p \in {"ICMP", "IGMP", "IP", "TCP", "UDP", "IPv6", "IPv6-ICMP"} |->
        CASE p = "ICMP" -> "1" [] p = "IGMP" -> "2" [] p = "IP" -> "4"
          [] p = "TCP" -> "6" [] p = "UDP" -> "17" [] p = "IPv6" -> "41"
          [] p = "IPv6-ICMP" -> "58"]

\* An element of fault_args: its text (the pieces of the string), and the
\* integer int() parses it to when it is a number.
Arg(text) == [s |-> text, n |-> 0]

Number(n) == [s |-> <<Str(n)>>, n |-> n]

Text(arg) == arg.s

IntOf(arg) == arg.n

\* base_command of the link synthesizers
LinkBaseCommand(node_pid) ==
    IF node_pid = None THEN <<>> ELSE <<"nsenter --target ", node_pid, " --net ">>

\* a mode that is taken as given, whatever it is
RedirectOrMirrorAsGiven(fault_args) ==
    IF Len(fault_args) >= 2 THEN Text(fault_args[2]) ELSE <<"redirect">>

\* try: fault_args[1], not in ['mirror', 'redirect'] -> 'redirect'
RedirectOrMirror(fault_args) ==
    IF Len(fault_args) >= 2 /\ Text(fault_args[2]) \in {<<"mirror">>, <<"redirect">>}
    THEN Text(fault_args[2]) ELSE <<"redirect">>

\* maximum_value of the random redirect, the 32-bit mask 2^32 - 1, as the
\* f-string prints it (the number is beyond the integers of the model checker)
maximum_value == "4294967295"

\* three decimal digits
Pad3(n) == (IF n < 10 THEN "00" ELSE IF n < 100 THEN "0" ELSE "") \o Str(n)

\* a boundary taken of 2^32 = 42949 * 10^5 + 67296 instead of maximum_value
RedirectBoundaryOfTwoPower32(percentage_to_redirect) ==
    LET y == (67296 * percentage_to_redirect) \div 100
        hi == 42949 * percentage_to_redirect + y \div 1000
        lo == y % 1000
    IN  IF hi = 0 THEN Str(lo) ELSE Str(hi) \o Pad3(lo)

\* str(boundary) for boundary = int(maximum_value * (percentage_to_redirect / 100)),
\* for a percentage >= 0: 4294967295 = 42949 * 10^5 + 67295 is multiplied and
\* divided in two halves, and the quotient is printed as hi * 1000 + lo
RedirectBoundary(percentage_to_redirect) ==
    LET y == (67295 * percentage_to_redirect) \div 100
        hi == 42949 * percentage_to_redirect + y \div 1000
        lo == y % 1000
    IN  IF hi = 0 THEN Str(lo) ELSE Str(hi) \o Pad3(lo)

\* a reorder percentage that is not complemented
RandomPercAsGiven(fault_pattern_args) == fault_pattern_args[1]

\* random_perc = 100 - int(fault_pattern_args[0])
RandomPerc(fault_pattern_args) == 100 - fault_pattern_args[1]

\* the bottleneck defaults: burst 1600, limit 3000
BottleneckBurst(fault_args) ==
    IF Len(fault_args) >= 2 THEN Text(fault_args[2]) ELSE <<"1600">>

BottleneckLimit(fault_args) ==
    IF Len(fault_args) > 2 THEN Text(fault_args[3]) ELSE <<"3000">>

make_nics_injection_command(node_pid, device, fault_type, fault_pattern, fault_pattern_args, fault_args, tc_cmd) ==
    LET base_command == LinkBaseCommand(node_pid)
        base_qdisc_netem_command ==
            base_command \o <<"tc qdisc ", tc_cmd, " dev ", device, " root netem ">>
        redirect_del ==
            base_command \o <<"tc qdisc ", tc_cmd, " dev ", device, " ingress ">>
        prep_command ==
            base_command \o <<"tc qdisc ", tc_cmd, " dev ", device, " handle ffff: ingress ">>
    IN
    IF Contains("random", fault_pattern) THEN
        IF Contains("delay", fault_type) THEN
            IF Len(fault_pattern_args) < 1 \/ Len(fault_args) < 1 THEN Raise
            ELSE Ok(base_qdisc_netem_command
                    \o <<fault_type, " ">> \o Text(fault_args[1])
                    \o <<" reorder ",
                         Str(RandomPerc(fault_pattern_args)), "%">>)
        ELSE IF Contains("redirect", fault_type) THEN
            IF Len(fault_pattern_args) < 1 \/ Len(fault_args) < 1 THEN Raise
            ELSE IF Contains("add", tc_cmd) THEN
                Ok(prep_command \o <<" ; ">> \o base_command
                   \o <<"tc filter ", tc_cmd, " dev ", device, " parent ffff: ",
                        " basic match \"meta( random mask ", maximum_value, " lt ",
                        RedirectBoundary(fault_pattern_args[1]), " ) \" ", " ",
                        " action mirred egress ">> \o RedirectOrMirror(fault_args)
                    \o <<" dev ">> \o Text(fault_args[1]))
            ELSE Ok(redirect_del)
        ELSE
            IF Len(fault_pattern_args) < 1 THEN Raise
            ELSE Ok(base_qdisc_netem_command
                    \o <<fault_type, " ", Str(fault_pattern_args[1]), "%">>)
    ELSE IF Contains("persistent", fault_pattern) THEN
        IF Contains("delay", fault_type) THEN
            IF Len(fault_args) < 1 THEN Raise
            ELSE Ok(base_qdisc_netem_command \o <<fault_type, " ">> \o Text(fault_args[1]))
        ELSE IF Contains("bottleneck", fault_type) THEN
            IF Len(fault_args) < 1 THEN Raise
            ELSE Ok(base_command
                    \o <<"tc qdisc ", tc_cmd, " dev ", device, " root tbf rate ">> \o Text(fault_args[1])
                    \o <<"kbit burst ">> \o BottleneckBurst(fault_args)
                    \o <<" limit ">> \o BottleneckLimit(fault_args))
        ELSE IF Contains("redirect", fault_type) THEN
            IF Len(fault_args) < 1 THEN Raise
            ELSE IF Contains("add", tc_cmd) THEN
                Ok(prep_command \o <<" ; ">> \o base_command
                   \o <<"tc filter ", tc_cmd, " dev ", device, " parent ffff: matchall ",
                        " action mirred egress ">> \o RedirectOrMirror(fault_args)
                    \o <<" dev ">> \o Text(fault_args[1]))
            ELSE Ok(redirect_del)
        ELSE IF Contains("down", fault_type) THEN
            IF Contains("add", tc_cmd)
            THEN Ok(base_command \o <<"ifconfig ", device, " down">>)
            ELSE Ok(base_command \o <<"ifconfig ", device, " up">>)
        ELSE Ok(base_qdisc_netem_command \o <<fault_type, " 100%">>)
    ELSE NoneWithError

\* str.replace(old, new) on a command, for an `old` that is a piece of it
Replace(cmd, old, new) == [i \in DOMAIN cmd |-> IF cmd[i] = old THEN new ELSE cmd[i]]

\* `sub in cmd` for a `sub` that is a piece of the command
HasPiece(cmd, sub) == \E i \in DOMAIN cmd : cmd[i] = sub

\* a port list that was not given (None), and one that was
NoPorts == [given |-> FALSE, ports |-> <<>>]

Ports(s) == [given |-> TRUE, ports |-> s]

\* one u32 classifier per port of a port list (`if target_ports:` skips None and [])
PortClassifiers(base_qdisc_netem_command, target_protocol_cmd, which, target_ports) ==
    [i \in 1..Len(target_ports.ports) |->
        base_qdisc_netem_command \o target_protocol_cmd
        \o <<" ", "match ip ", which, " ", Str(target_ports.ports[i]), " 0xffff", " flowid 1:1">>]

\* a Del list that removes the prio root whatever the fault type
FilteredDelAlwaysRoot(base_command, fault_type, device) ==
    <<base_command \o <<"tc qdisc del dev ", device, " root handle 1: prio">>>>

\* the Del list of a filtered fault: the ingress qdisc of a redirect, else the
\* prio root
FilteredDel(base_command, fault_type, device) ==
    IF Contains("redirect", fault_type)
    THEN <<base_command \o <<"tc qdisc del dev ", device, " ingress ">>>>
    ELSE <<base_command \o <<"tc qdisc del dev ", device, " root handle 1: prio">>>>

make_filtered_nics_injection_commands(node_pid, fault_pattern, fault_pattern_args, fault_type, fault_args, device, target_protocol, target_dst_ports, target_src_ports, enable) ==
    LET base_command == LinkBaseCommand(node_pid)
        root ==
            IF Contains("redirect", fault_type)
            THEN base_command \o <<"tc qdisc add dev ", device, " handle ffff: ingress ">>
            ELSE base_command \o <<"tc qdisc add dev ", device, " root handle 1: prio">>
        base_qdisc_netem_command ==
            base_command \o <<"tc filter add dev ", device, " ", "parent 1:0",
                              " protocol ip prio 1 u32 ">>
        target_protocol_cmd ==
            <<"match", " ip protocol ", target_protocol_table[target_protocol], " 0xff">>
        classifiers ==
            PortClassifiers(base_qdisc_netem_command, target_protocol_cmd, "dport",
                            target_dst_ports)
            \o PortClassifiers(base_qdisc_netem_command, target_protocol_cmd, "sport",
                               target_src_ports)
            \o (IF ~target_dst_ports.given /\ ~target_src_ports.given
                THEN <<base_qdisc_netem_command \o target_protocol_cmd \o <<" flowid 1:1">>>>
                ELSE <<>>)
        cmd_list == <<root>> \o classifiers
        leaf == base_command \o <<"tc qdisc add dev ", device, " parent 1:1 handle 2: ">>
        append_string ==
            <<" action mirred egress ">> \o RedirectOrMirror(fault_args)
                    \o <<" dev ">> \o Text(fault_args[1])
    IN
    IF enable THEN
        IF target_protocol \notin DOMAIN target_protocol_table THEN Raise
        ELSE IF Contains("random", fault_pattern) THEN
            IF Contains("delay", fault_type) THEN
                IF Len(fault_pattern_args) < 1 \/ Len(fault_args) < 1 THEN Raise
                ELSE Ok(cmd_list \o
                        <<leaf \o <<"netem ", fault_type, " ">> \o Text(fault_args[1])
                    \o <<" reorder ",
                                    Str(RandomPerc(fault_pattern_args)), "%">>>>)
            ELSE
                IF Len(fault_pattern_args) < 1 THEN Raise
                ELSE Ok(cmd_list \o
                        <<leaf \o <<"netem ", fault_type, " ",
                                    Str(fault_pattern_args[1]), "%">>>>)
        ELSE IF Contains("persistent", fault_pattern) THEN
            IF Contains("bottleneck", fault_type) THEN
                IF Len(fault_args) < 1 THEN Raise
                ELSE Ok(cmd_list \o
                        <<leaf \o <<"tbf rate ">> \o Text(fault_args[1])
                    \o <<"kbit burst ">> \o BottleneckBurst(fault_args)
                    \o <<" limit ">> \o BottleneckLimit(fault_args)>>)
            ELSE IF Contains("redirect", fault_type) THEN
                IF Len(fault_args) < 1 THEN Raise
                ELSE Ok([i \in DOMAIN cmd_list |->
                            IF HasPiece(cmd_list[i], "match")
                            THEN Replace(cmd_list[i], "parent 1:0", "parent ffff:")
                                 \o append_string
                            ELSE cmd_list[i]])
            ELSE IF Contains("delay", fault_type) THEN
                IF Len(fault_args) < 1 THEN Raise
                ELSE Ok(cmd_list \o <<leaf \o <<"netem ", fault_type, " ">> \o Text(fault_args[1])>>)
            ELSE Ok(cmd_list \o <<leaf \o <<"netem ", fault_type, " ", "100%">>>>)
        ELSE Ok(cmd_list)
    ELSE Ok(FilteredDel(base_command, fault_type, device))

\* a logger call that reports every command as an activation
LoggerEvAlwaysActive(t, enable, cmd) == ActiveEv(t, cmd)

\* the logger call for one executed command
LoggerEv(t, enable, cmd) == IF enable THEN ActiveEv(t, cmd) ELSE InactiveEv(t)

\* for command in cmd_list: call(command, shell=True), then the logger call
RunList(t, enable, cmd_list) ==
    [i \in 1..(2 * Len(cmd_list)) |->
        IF i % 2 = 1 THEN CmdEv(t, enable, cmd_list[(i + 1) \div 2])
        ELSE LoggerEv(t, enable, cmd_list[i \div 2])]

\* the outcome of an executor call: the events it appended, whether an
\* exception left it, and whether it ran a shell command
Crashed(events) == [crash |-> TRUE, shell |-> FALSE, events |-> events]

Ran(events) == [crash |-> FALSE, shell |-> TRUE, events |-> events]

LoggedOnly(events) == [crash |-> FALSE, shell |-> FALSE, events |-> events]

\* a verb that never deletes
TcCmdAlwaysAdd(enable) == "add"

\* the tc verb inject_nics passes to the synthesizer: 'add' to enable, 'del' to disable
TcCmd(enable) == IF enable THEN "add" ELSE "del"

\* inject_nics: the events it appends and whether an exception left it
inject_nics(t, device, node_pid, fault_type, fault_pattern, fault_pattern_args, fault_args, target_protocol, target_dst_ports, target_src_ports, enable) ==
    IF Contains("any", target_protocol) THEN
        LET r == make_nics_injection_command(node_pid, device, fault_type, fault_pattern,
                                             fault_pattern_args, fault_args,
                                             TcCmd(enable))
            synth == <<SynthEv(t, enable, fault_pattern_args)>>
        IN  IF r.exc THEN Crashed(synth)
            \* call(None, shell=True) raises TypeError before any logger call
            ELSE IF r.none THEN Crashed(synth \o <<ErrorEv(t)>>)
            ELSE Ran(synth \o RunList(t, enable, <<r.val>>))
    ELSE
        LET r == make_filtered_nics_injection_commands(node_pid, fault_pattern,
                     fault_pattern_args, fault_type, fault_args, device, target_protocol,
                     target_dst_ports, target_src_ports, enable)
            synth == <<SynthEv(t, enable, fault_pattern_args)>>
        IN  IF r.exc THEN Crashed(synth)
            ELSE Ran(synth \o RunList(t, enable, r.val))

(***************************************************************************)
(* The tasks and the event loop.                                           *)
(***************************************************************************)
\* the tasks are named by the tags of their faults
Tasks == DOMAIN cfg

\* the suspension points: every `await asyncio.sleep(...)` of the file
SleepPcs == {"sleep_pre", "sleep_burst_on", "sleep_burst_off", "sleep_degradation",
             "sleep_persistent", "sleep_post"}

\* where a task continues when its sleep returns
Resume(p) ==
    CASE p = "sleep_pre" -> "dispatch"
      [] p = "sleep_burst_on" -> "burst_disable"
      [] p = "sleep_burst_off" -> "burst_loop"
      [] p = "sleep_degradation" -> "degradation_disable"
      [] p = "sleep_persistent" -> "persistent_disable"
      [] p = "sleep_post" -> "return"

\* the exit statuses subprocess reports: killed by a signal, success, failure
RetCodes == {-1, 0, 1}

\* the locals of a task before it runs
NoLocals == [i |-> 0, num |-> 0, duration |-> 0, period |-> 0, value |-> 0,
             step_size |-> 0, step_length |-> 0, end |-> 0]

\* task t goes on at p with the events evs logged and the locals l; run is the
\* task the event loop runs next (t itself, or Idle when t is suspended or over)
Advance(t, p, evs, l, run) ==
    /\ pc' = [pc EXCEPT ![t] = p]
    /\ trace' = trace \o evs
    /\ loc' = [loc EXCEPT ![t] = l]
    /\ running' = run
    /\ UNCHANGED cfg

\* t runs on without a shell command
Quiet(t, p, evs, l, run) == Advance(t, p, evs, l, run) /\ UNCHANGED retcode

\* the shell commands among events
CmdEvents(evs) == SelectSeq(evs, LAMBDA e : e.kind = "cmd")

\* The exit statuses of the commands among evs, as far as they are kept: the
\* status rc of the last one, and whether a command of an activation has
\* returned non-zero so far (`inner`: one before the last of this call did).
Returned(t, evs, rc, inner) ==
    [last |-> rc,
     add_failed |-> \/ retcode[t].add_failed
                    \/ /\ CmdEvents(evs)[1].enable
                       /\ rc # 0 \/ inner]

\* whether a command before the last can have failed: there is one
InnerFailures(evs) == IF Len(CmdEvents(evs)) > 1 THEN BOOLEAN ELSE {FALSE}

\* an executor that raises when a command returns a non-zero exit status
ShellRaisingOnFailure(t, p, evs, l, run) ==
    \E rc \in RetCodes, inner \in InnerFailures(evs) :
        /\ retcode' = [retcode EXCEPT ![t] = Returned(t, evs, rc, inner)]
        /\ IF rc # 0 \/ inner THEN Advance(t, "crashed", evs, l, Idle)
           ELSE Advance(t, p, evs, l, run)

\* t runs on after shell commands, each of which returned some exit status:
\* the status is passed to the logger and to log.debug, and to nothing else
Shell(t, p, evs, l, run) ==
    /\ Advance(t, p, evs, l, run)
    /\ \E rc \in RetCodes, inner \in InnerFailures(evs) :
          retcode' = [retcode EXCEPT ![t] = Returned(t, evs, rc, inner)]

\* an injection step: the events of an executor call r, then either the
\* exception that left it ends the task, or the task sleeps ms at p
InjectThenSleep(t, r, p, ms, l) ==
    IF r.crash THEN Quiet(t, "crashed", r.events, l, Idle)
    ELSE IF r.shell THEN Shell(t, p, r.events \o <<SleepEv(t, ms)>>, l, Idle)
    ELSE Quiet(t, p, r.events \o <<SleepEv(t, ms)>>, l, Idle)

\* an injection step that is followed by no sleep
InjectThenGo(t, r, p, l) ==
    IF r.crash THEN Quiet(t, "crashed", r.events, l, Idle)
    ELSE IF r.shell THEN Shell(t, p, r.events, l, t)
    ELSE Quiet(t, p, r.events, l, t)

\* a loop that resumes a task while another one is running
WakePreempting(t) ==
    /\ pc[t] \in SleepPcs
    /\ pc' = [pc EXCEPT ![t] = Resume(pc[t])]
    /\ running' = t
    /\ UNCHANGED <<cfg, loc, trace, retcode>>

\* the event loop resumes a task whose sleep has returned
Wake(t) ==
    /\ running = Idle
    /\ pc[t] \in SleepPcs
    /\ pc' = [pc EXCEPT ![t] = Resume(pc[t])]
    /\ running' = t
    /\ UNCHANGED <<cfg, loc, trace, retcode>>

\* Task.cancel() on a suspended task: CancelledError is raised at the await;
\* no function of the file catches it, so it leaves go()
Cancel(t) ==
    /\ running = Idle
    /\ pc[t] \in SleepPcs
    /\ pc' = [pc EXCEPT ![t] = "cancelled"]
    /\ UNCHANGED <<cfg, loc, trace, running, retcode>>

(***************************************************************************)
(* LinkInjector: the scheduler.                                            *)
(***************************************************************************)
IsLink(t) == cfg[t].inj = "link"

\* self.inject_nics(interface, self.namespace_pid, self.getFaultType(), pattern, args, ...)
LinkInject(t, fault_pattern, fault_pattern_args, enable) ==
    inject_nics(t, cfg[t].device, cfg[t].ns_pid, cfg[t].fault_type, fault_pattern,
                fault_pattern_args, cfg[t].fault_args, cfg[t].protocol,
                cfg[t].dst_ports, cfg[t].src_ports, enable)

\* a go() that dispatches at once, without the pre-injection sleep
Link_go_NoPreWait(t) ==
    /\ IsLink(t) /\ running = Idle /\ pc[t] = "new"
    /\ Quiet(t, "dispatch", <<>>, loc[t], t)

\* go() -> do_injection(): the pre-injection sleep
Link_go(t) ==
    /\ IsLink(t) /\ running = Idle /\ pc[t] = "new"
    /\ Quiet(t, "sleep_pre", <<SleepEv(t, cfg[t].pre)>>, loc[t], Idle)

\* do_injection(): the dispatch on the fault pattern
Link_do_injection(t) ==
    /\ IsLink(t) /\ running = t /\ pc[t] = "dispatch"
    /\ Quiet(t, IF Contains("burst", cfg[t].fault_pattern) THEN "burst"
                ELSE IF Contains("degradation", cfg[t].fault_pattern) THEN "degradation"
                ELSE "persistent", <<>>, loc[t], t)

\* _inject_burst_pattern(): the burst configuration
Link_inject_burst_pattern(t) ==
    LET args == cfg[t].fault_pattern_args IN
    /\ IsLink(t) /\ running = t /\ pc[t] = "burst"
    /\ IF Len(args) < 2
       \* log.error, then burst_config[0] or burst_config[1] raises IndexError
       THEN Quiet(t, "crashed", <<ErrorEv(t)>>, loc[t], Idle)
       \* int(injection_time / 0.0) raises ZeroDivisionError
       ELSE IF args[2] = 0
       THEN Quiet(t, "crashed", <<>>, loc[t], Idle)
       ELSE Quiet(t, "burst_loop", <<>>,
                  [loc[t] EXCEPT !.duration = args[1], !.period = args[2], !.i = 0,
                                 !.num = IntDiv(cfg[t].injection, args[2])], t)

\* for _ in range(burst_num): enable, sleep burst_duration
LinkBurstEnable(t) ==
    /\ IsLink(t) /\ running = t /\ pc[t] = "burst_loop"
    /\ loc[t].i < loc[t].num
    /\ InjectThenSleep(t, LinkInject(t, "persistent", <<"">>, TRUE),
                       "sleep_burst_on", loc[t].duration, loc[t])

\* disable, sleep burst_period - burst_duration
LinkBurstDisable(t) ==
    /\ IsLink(t) /\ running = t /\ pc[t] = "burst_disable"
    /\ InjectThenSleep(t, LinkInject(t, "persistent", <<"">>, FALSE),
                       "sleep_burst_off", loc[t].period - loc[t].duration,
                       [loc[t] EXCEPT !.i = @ + 1])

\* range(burst_num) is exhausted: _inject_burst_pattern() returns
LinkBurstReturn(t) ==
    /\ IsLink(t) /\ running = t /\ pc[t] = "burst_loop"
    /\ loc[t].i >= loc[t].num
    /\ Quiet(t, "post", <<>>, loc[t], t)

\* _inject_degradation_pattern(): the degradation configuration
Link_inject_degradation_pattern(t) ==
    LET args == cfg[t].fault_pattern_args
        end_degradation == IF Len(args) >= 4 THEN Min(args[4], 100) ELSE 100
        start_degradation == IF Len(args) >= 3 THEN args[3] ELSE 0
        degradation_step_length == IF Len(args) >= 2 THEN args[2] ELSE 1000
        degradation_step_size == IF Len(args) >= 1 THEN args[1] ELSE 5
        err == IF Len(args) >= 1 THEN <<>> ELSE <<ErrorEv(t)>>
    IN
    /\ IsLink(t) /\ running = t /\ pc[t] = "degradation"
    /\ IF degradation_step_length = 0
       \* int(injection_time / 0.0) raises ZeroDivisionError
       THEN Quiet(t, "crashed", err, loc[t], Idle)
       ELSE Quiet(t, "degradation_loop", err,
                  [loc[t] EXCEPT !.end = end_degradation, !.value = start_degradation,
                                 !.step_length = degradation_step_length,
                                 !.step_size = degradation_step_size, !.i = 0,
                                 !.num = IntDiv(cfg[t].injection, degradation_step_length)],
                  t)

\* for i in range(number_of_steps): enable with [degradation_value], sleep
LinkDegradationEnable(t) ==
    /\ IsLink(t) /\ running = t /\ pc[t] = "degradation_loop"
    /\ loc[t].i < loc[t].num
    /\ InjectThenSleep(t, LinkInject(t, "random", <<loc[t].value>>, TRUE),
                       "sleep_degradation", loc[t].step_length, loc[t])

\* disable with [degradation_value], then the next degradation_value
LinkDegradationDisable(t) ==
    LET next == loc[t].value + loc[t].step_size IN
    /\ IsLink(t) /\ running = t /\ pc[t] = "degradation_disable"
    /\ InjectThenGo(t, LinkInject(t, "random", <<loc[t].value>>, FALSE),
                    "degradation_loop",
                    [loc[t] EXCEPT !.i = @ + 1,
                                   !.value = IF next > loc[t].end THEN loc[t].end ELSE next])

\* range(number_of_steps) is exhausted: _inject_degradation_pattern() returns
LinkDegradationReturn(t) ==
    /\ IsLink(t) /\ running = t /\ pc[t] = "degradation_loop"
    /\ loc[t].i >= loc[t].num
    /\ Quiet(t, "post", <<>>, loc[t], t)

\* _inject_persistent_or_random_pattern(): enable, sleep the injection time
LinkPersistentEnable(t) ==
    /\ IsLink(t) /\ running = t /\ pc[t] = "persistent"
    /\ InjectThenSleep(t, LinkInject(t, cfg[t].fault_pattern, cfg[t].fault_pattern_args, TRUE),
                       "sleep_persistent", cfg[t].injection, loc[t])

\* _inject_persistent_or_random_pattern(): disable
LinkPersistentDisable(t) ==
    /\ IsLink(t) /\ running = t /\ pc[t] = "persistent_disable"
    /\ InjectThenGo(t, LinkInject(t, cfg[t].fault_pattern, cfg[t].fault_pattern_args, FALSE),
                    "post", loc[t])

\* do_injection(): the post-injection sleep
LinkPostInjection(t) ==
    /\ IsLink(t) /\ running = t /\ pc[t] = "post"
    /\ Quiet(t, "sleep_post", <<SleepEv(t, cfg[t].post)>>, loc[t], Idle)

\* do_injection() and go() return
LinkReturn(t) ==
    /\ IsLink(t) /\ running = t /\ pc[t] = "return"
    /\ Quiet(t, "done", <<>>, loc[t], Idle)

(***************************************************************************)
(* MultiInjector.                                                          *)
(***************************************************************************)
IsMulti(t) == cfg[t].inj = "multi"

\* the text of a JSON object that maps each name of `names`, in order, to the
\* text `value` (json.dumps separates with ", " and ": ")
RECURSIVE JsonMembers(_, _)
JsonMembers(names, value) ==
    IF names = <<>> THEN <<>>
    ELSE <<"\"", Head(names), "\": ", value>>
         \o (IF Tail(names) = <<>> THEN <<>> ELSE <<", ">>)
         \o JsonMembers(Tail(names), value)

JsonObject(names, value) == <<"{">> \o JsonMembers(names, value) \o <<"}">>

\* the caller's config_string: per interface some tcconfig settings
config_string(interface_names) ==
    JsonObject(interface_names,
               "{\"outgoing\": {\"dst-network=0.0.0.0/0\": {\"delay\": \"100ms\"}}, \"incoming\": {}}")

\* list(json.loads(config_string).keys())
target_interface_names(interface_names) == interface_names

\* a reset that names the first interface only
reset_config_string_of_first(interface_names) ==
    JsonObject(<<Head(target_interface_names(interface_names))>>,
               "{\"outgoing\": {}, \"incoming\": {}}")

\* json.dumps(unset_config)
reset_config_string(interface_names) ==
    JsonObject(target_interface_names(interface_names),
               "{\"outgoing\": {}, \"incoming\": {}}")

\* build_start_command: <<start_command, end_command>>
build_start_command(interface_names) ==
    << <<"echo '">> \o config_string(interface_names)
          \o <<"' ", "|", " tcset /dev/stdin --import-setting">>,
       <<"echo '">> \o reset_config_string(interface_names)
          \o <<"' ", "|", " tcset /dev/stdin --import-setting">> >>

\* self.inject_command, self.eject_command: set once by __init__
inject_command(t) == build_start_command(cfg[t].interfaces)[1]

eject_command(t) == build_start_command(cfg[t].interfaces)[2]

\* an optional command: None, or the command
NoCommand == [none |-> TRUE, cmd |-> <<>>]

Command(c) == [none |-> FALSE, cmd |-> c]

\* MultiInjector.execute_command_for_node; for the command None,
\* base_command + None raises TypeError before anything is run or logged
Multi_execute_command_for_node(t, pid_of_node, command_to_execute, enable) ==
    IF command_to_execute.none THEN Crashed(<<>>)
    ELSE
    LET base_command == <<"nsenter --target ", pid_of_node, " --net --pid ">>
        full_command == base_command \o command_to_execute.cmd
        replaced ==
            IF HasPiece(full_command, "|")
            THEN Replace(full_command, "|",
                         "nsenter --target " \o pid_of_node \o " --net --pid ")
            ELSE full_command
    IN  Ran(<<CmdEv(t, enable, replaced), LoggerEv(t, enable, command_to_execute.cmd)>>)

\* go() -> do_injection(): the pre-injection sleep
Multi_go(t) ==
    /\ IsMulti(t) /\ running = Idle /\ pc[t] = "new"
    /\ Quiet(t, "sleep_pre", <<SleepEv(t, cfg[t].pre)>>, loc[t], Idle)

\* do_injection(): the dispatch on the fault pattern
Multi_do_injection(t) ==
    /\ IsMulti(t) /\ running = t /\ pc[t] = "dispatch"
    /\ IF cfg[t].fault_pattern = "burst" THEN Quiet(t, "burst", <<>>, loc[t], t)
       ELSE IF cfg[t].fault_pattern = "persistent" THEN Quiet(t, "persistent", <<>>, loc[t], t)
       ELSE Quiet(t, "post", <<ErrorEv(t)>>, loc[t], t)

\* the burst configuration of MultiInjector._inject_burst and
\* NodeInjector._inject_burst: <<burst_duration, burst_period, log.error called>>
BurstConfig(burst_config) ==
    IF Len(burst_config) < 2 THEN <<1000, 2000, TRUE>>
    ELSE <<burst_config[1], burst_config[2], FALSE>>

\* _inject_burst(): the burst configuration
Multi_inject_burst(t) ==
    LET b == BurstConfig(cfg[t].fault_pattern_args)
        err == IF b[3] THEN <<ErrorEv(t)>> ELSE <<>>
    IN
    /\ IsMulti(t) /\ running = t /\ pc[t] = "burst"
    /\ IF b[2] = 0
       \* int(injection_time / 0.0) raises ZeroDivisionError
       THEN Quiet(t, "crashed", err, loc[t], Idle)
       ELSE Quiet(t, "burst_loop", err,
                  [loc[t] EXCEPT !.duration = b[1], !.period = b[2], !.i = 0,
                                 !.num = IntDiv(cfg[t].injection, b[2])], t)

\* for _ in range(burst_num): inject_command, sleep burst_duration
MultiBurstEnable(t) ==
    /\ IsMulti(t) /\ running = t /\ pc[t] = "burst_loop"
    /\ loc[t].i < loc[t].num
    /\ InjectThenSleep(t, Multi_execute_command_for_node(t, cfg[t].ns_pid,
                                                         Command(inject_command(t)), TRUE),
                       "sleep_burst_on", loc[t].duration, loc[t])

\* eject_command, sleep burst_period - burst_duration
MultiBurstDisable(t) ==
    /\ IsMulti(t) /\ running = t /\ pc[t] = "burst_disable"
    /\ InjectThenSleep(t, Multi_execute_command_for_node(t, cfg[t].ns_pid,
                                                         Command(eject_command(t)), FALSE),
                       "sleep_burst_off", loc[t].period - loc[t].duration,
                       [loc[t] EXCEPT !.i = @ + 1])

\* range(burst_num) is exhausted: _inject_burst() returns
MultiBurstReturn(t) ==
    /\ IsMulti(t) /\ running = t /\ pc[t] = "burst_loop"
    /\ loc[t].i >= loc[t].num
    /\ Quiet(t, "post", <<>>, loc[t], t)

\* _inject_persistent(): inject_command, sleep the injection time
MultiPersistentEnable(t) ==
    /\ IsMulti(t) /\ running = t /\ pc[t] = "persistent"
    /\ InjectThenSleep(t, Multi_execute_command_for_node(t, cfg[t].ns_pid,
                                                         Command(inject_command(t)), TRUE),
                       "sleep_persistent", cfg[t].injection, loc[t])

\* _inject_persistent(): eject_command
MultiPersistentDisable(t) ==
    /\ IsMulti(t) /\ running = t /\ pc[t] = "persistent_disable"
    /\ InjectThenGo(t, Multi_execute_command_for_node(t, cfg[t].ns_pid,
                                                      Command(eject_command(t)), FALSE),
                    "post", loc[t])

\* do_injection(): the post-injection sleep
MultiPostInjection(t) ==
    /\ IsMulti(t) /\ running = t /\ pc[t] = "post"
    /\ Quiet(t, "sleep_post", <<SleepEv(t, cfg[t].post)>>, loc[t], Idle)

\* do_injection() and go() return
MultiReturn(t) ==
    /\ IsMulti(t) /\ running = t /\ pc[t] = "return"
    /\ Quiet(t, "done", <<>>, loc[t], Idle)

(***************************************************************************)
(* NodeInjector.                                                           *)
(***************************************************************************)
IsNode(t) == cfg[t].inj = "node"

\* math.ceil(a / b) for b > 0
CeilDiv(a, b) == -((-a) \div b)

\* _get_cgroup_size() on the cpu cgroup found at construction:
\*  - no cgroup name (None in the argument list of subprocess.run): TypeError
\*  - cgget fails (CalledProcessError): log.error, returns None
\*  - otherwise cpu_quota / cpu_period, kept as the pair <<quota, period>>
get_cgroup_size(t) ==
    CASE cfg[t].cgroup = "unreadable" -> Raise
      [] cfg[t].cgroup = "cgget_fails" -> NoneWithError
      [] OTHER -> Ok(<<cfg[t].cfs_quota_us, cfg[t].cfs_period_us>>)

\* a CPU count that is rounded down
NumCpusRoundedDown(stress, fraction) == (stress * fraction[1]) \div (fraction[2] * 100)

\* num_cpus = math.ceil(stress * fraction / 100)
NumCpus(stress, fraction) == CeilDiv(stress * fraction[1], fraction[2] * 100)

\* stress_per_cpu = int(stress * fraction / num_cpus) if num_cpus > 0 else 0
StressPerCpu(stress, fraction) ==
    IF NumCpus(stress, fraction) > 0
    THEN (stress * fraction[1]) \div (fraction[2] * NumCpus(stress, fraction))
    ELSE 0

\* "stress-ng -l {} -t {} --cpu {} --cpu-method int64longdouble &"
StressCommand(stress, fraction, seconds) ==
    <<"stress-ng -l ", Str(StressPerCpu(stress, fraction)), " -t ", Str(seconds),
      " --cpu ", Str(NumCpus(stress, fraction)), " --cpu-method int64longdouble &">>

\* NodeInjector.execute_command_for_node
Node_execute_command_for_node(t, pid_of_node, command_to_execute, enable) ==
    IF command_to_execute.none
    THEN LoggedOnly(<<LoggerEv(t, enable, <<"Dummy command, no action taken">>)>>)
    ELSE
    LET base_command == <<"nsenter --target ", pid_of_node, " --net --pid --cgroup ">>
        full_command == base_command \o command_to_execute.cmd
        replaced ==
            IF HasPiece(full_command, "|")
            THEN Replace(full_command, "|",
                         "nsenter --target " \o pid_of_node \o " --net --pid --cgroup")
            ELSE full_command
    IN  Ran(<<CmdEv(t, enable, replaced), LoggerEv(t, enable, command_to_execute.cmd)>>)

\* the number of "{}" in a command: start_base_command.count("{}")
RECURSIVE CountPiece(_, _)
CountPiece(cmd, piece) ==
    IF cmd = <<>> THEN 0
    ELSE (IF Head(cmd) = piece THEN 1 ELSE 0) + CountPiece(Tail(cmd), piece)

\* the custom commands of _inject_burst and _inject_degradation:
\* <<start_command, end_command, log.error called>>
CustomCommands(fault_args) ==
    IF Len(fault_args) >= 2
    THEN <<Command(Text(fault_args[1])), Command(Text(fault_args[2])), FALSE>>
    ELSE IF Len(fault_args) >= 1 THEN <<Command(Text(fault_args[1])), NoCommand, FALSE>>
    ELSE <<NoCommand, NoCommand, TRUE>>

\* go() -> do_injection(): the pre-injection sleep
Node_go(t) ==
    /\ IsNode(t) /\ running = Idle /\ pc[t] = "new"
    /\ Quiet(t, "sleep_pre", <<SleepEv(t, cfg[t].pre)>>, loc[t], Idle)

\* do_injection(): the dispatch on the fault pattern
Node_do_injection(t) ==
    /\ IsNode(t) /\ running = t /\ pc[t] = "dispatch"
    /\ IF cfg[t].fault_pattern = "burst" THEN Quiet(t, "burst", <<>>, loc[t], t)
       ELSE IF cfg[t].fault_pattern = "degradation"
       THEN Quiet(t, "degradation", <<>>, loc[t], t)
       ELSE IF cfg[t].fault_pattern = "persistent"
       THEN Quiet(t, "persistent", <<>>, loc[t], t)
       ELSE Quiet(t, "post", <<ErrorEv(t)>>, loc[t], t)

\* a burst duration that is cut to whole seconds without the minimum of one
StressBurstDurationCut(burst_duration) == (burst_duration \div 1000) * 1000

\* burst_duration = int(max(1, burst_duration)), in milliseconds
StressBurstDuration(burst_duration) == (Max(1000, burst_duration) \div 1000) * 1000

\* _inject_burst(): the burst configuration and the commands of the fault type
Node_inject_burst(t) ==
    LET b == BurstConfig(cfg[t].fault_pattern_args)
        err == IF b[3] THEN <<ErrorEv(t)>> ELSE <<>>
        size == get_cgroup_size(t)
        l == [loc[t] EXCEPT !.duration = b[1], !.period = b[2], !.i = 0,
                            !.num = IntDiv(cfg[t].injection, b[2])]
    IN
    /\ IsNode(t) /\ running = t /\ pc[t] = "burst"
    /\ IF b[2] = 0
       \* int(injection_time / 0.0) raises ZeroDivisionError
       THEN Quiet(t, "crashed", err, loc[t], Idle)
       ELSE IF cfg[t].fault_type = "custom"
       THEN Quiet(t, "burst_loop",
                  err \o (IF CustomCommands(cfg[t].fault_args)[3] THEN <<ErrorEv(t)>> ELSE <<>>),
                  l, t)
       ELSE IF cfg[t].fault_type = "stress_cpu"
       THEN IF size.exc THEN Quiet(t, "crashed", err, loc[t], Idle)
            \* cpu_stress_percentage * None raises TypeError
            ELSE IF size.none
            THEN Quiet(t, "crashed",
                       err \o <<ErrorEv(t)>>
                       \o (IF Len(cfg[t].fault_args) >= 1 THEN <<>> ELSE <<ErrorEv(t)>>),
                       loc[t], Idle)
            ELSE Quiet(t, "burst_loop",
                       err \o (IF Len(cfg[t].fault_args) >= 1 THEN <<>> ELSE <<ErrorEv(t)>>),
                       [l EXCEPT !.duration = StressBurstDuration(b[1])], t)
       ELSE Quiet(t, "post", err \o <<ErrorEv(t)>>, l, t)

\* the activation command of a burst cycle
NodeBurstStart(t) ==
    IF cfg[t].fault_type = "custom" THEN CustomCommands(cfg[t].fault_args)[1]
    ELSE Command(StressCommand(IF Len(cfg[t].fault_args) >= 1
                               THEN IntOf(cfg[t].fault_args[1]) ELSE 50,
                               get_cgroup_size(t).val, loc[t].duration \div 1000))

\* the deactivation command of a burst cycle: a dummy call for stress_cpu
NodeBurstEnd(t) ==
    IF cfg[t].fault_type = "custom" THEN CustomCommands(cfg[t].fault_args)[2]
    ELSE NoCommand

\* for _ in range(burst_num): start command, sleep burst_duration
NodeBurstEnable(t) ==
    /\ IsNode(t) /\ running = t /\ pc[t] = "burst_loop"
    /\ loc[t].i < loc[t].num
    /\ InjectThenSleep(t, Node_execute_command_for_node(t, cfg[t].ns_pid,
                                                        NodeBurstStart(t), TRUE),
                       "sleep_burst_on", loc[t].duration, loc[t])

\* end command, sleep burst_period - burst_duration
NodeBurstDisable(t) ==
    /\ IsNode(t) /\ running = t /\ pc[t] = "burst_disable"
    /\ InjectThenSleep(t, Node_execute_command_for_node(t, cfg[t].ns_pid,
                                                        NodeBurstEnd(t), FALSE),
                       "sleep_burst_off", loc[t].period - loc[t].duration,
                       [loc[t] EXCEPT !.i = @ + 1])

\* range(burst_num) is exhausted: _inject_burst() returns
NodeBurstReturn(t) ==
    /\ IsNode(t) /\ running = t /\ pc[t] = "burst_loop"
    /\ loc[t].i >= loc[t].num
    /\ Quiet(t, "post", <<>>, loc[t], t)

\* _inject_degradation(): the degradation configuration and the commands
Node_inject_degradation(t) ==
    LET args == cfg[t].fault_pattern_args
        end_degradation == IF Len(args) >= 4 THEN args[4] ELSE 100
        start_degradation == IF Len(args) >= 3 THEN args[3] ELSE 0
        degradation_step_length == IF Len(args) >= 2 THEN args[2] ELSE 1000
        degradation_step_size == IF Len(args) >= 1 THEN args[1] ELSE 5
        err == IF Len(args) >= 1 THEN <<>> ELSE <<ErrorEv(t)>>
        custom == CustomCommands(cfg[t].fault_args)
        size == get_cgroup_size(t)
        l == [loc[t] EXCEPT !.end = end_degradation, !.value = start_degradation,
                            !.step_length = degradation_step_length,
                            !.step_size = degradation_step_size, !.i = 0,
                            !.num = IntDiv(cfg[t].injection, degradation_step_length)]
    IN
    /\ IsNode(t) /\ running = t /\ pc[t] = "degradation"
    /\ IF degradation_step_length = 0
       \* int(injection_time / 0.0) raises ZeroDivisionError
       THEN Quiet(t, "crashed", err, loc[t], Idle)
       ELSE IF cfg[t].fault_type = "custom"
       THEN IF custom[1].none
            \* log.error, then None.count("{}") raises AttributeError
            THEN Quiet(t, "crashed", err \o <<ErrorEv(t)>>, loc[t], Idle)
            ELSE Quiet(t, "degradation_loop",
                       err \o (IF CountPiece(custom[1].cmd, "{}") > 1
                               THEN <<ErrorEv(t)>> ELSE <<>>), l, t)
       ELSE IF cfg[t].fault_type = "stress_cpu"
       THEN IF size.exc THEN Quiet(t, "crashed", err, loc[t], Idle)
            ELSE Quiet(t, "degradation_loop",
                       err \o (IF size.none THEN <<ErrorEv(t)>> ELSE <<>>), l, t)
       ELSE Quiet(t, "post", err \o <<ErrorEv(t)>>, l, t)

\* start_base_command.format(injection_intensity): one argument fills one "{}"
\* and a second "{}" raises IndexError
Format(cmd, intensity) ==
    IF CountPiece(cmd, "{}") > 1 THEN Raise
    ELSE Ok(Replace(cmd, "{}", Str(intensity)))

\* for i in range(number_of_steps): the activation, sleep the step length
NodeDegradationEnable(t) ==
    LET custom == CustomCommands(cfg[t].fault_args)
        start_command == Format(custom[1].cmd, loc[t].value)
        size == get_cgroup_size(t)
    IN
    /\ IsNode(t) /\ running = t /\ pc[t] = "degradation_loop"
    /\ loc[t].i < loc[t].num
    /\ IF cfg[t].fault_type = "custom"
       THEN IF start_command.exc
            THEN Quiet(t, "crashed", <<SynthEv(t, TRUE, <<loc[t].value>>)>>, loc[t], Idle)
            ELSE InjectThenSleep(t,
                    LET r == Node_execute_command_for_node(t, cfg[t].ns_pid,
                                 Command(start_command.val), TRUE)
                    IN  [r EXCEPT !.events = <<SynthEv(t, TRUE, <<loc[t].value>>)>> \o @],
                    "sleep_degradation", loc[t].step_length, loc[t])
       \* stress_cpu; injection_intensity * None raises TypeError
       ELSE IF size.none
            THEN Quiet(t, "crashed", <<>>, loc[t], Idle)
            ELSE InjectThenSleep(t,
                    LET r == Node_execute_command_for_node(t, cfg[t].ns_pid,
                                 Command(StressCommand(loc[t].value, size.val,
                                                       loc[t].step_length \div 1000)), TRUE)
                    IN  [r EXCEPT !.events = <<SynthEv(t, TRUE, <<loc[t].value>>)>> \o @],
                    \* await asyncio.sleep(int(degradation_step_length))
                    "sleep_degradation", (loc[t].step_length \div 1000) * 1000, loc[t])

\* the deactivation of a step, then the next injection_intensity
NodeDegradationDisable(t) ==
    /\ IsNode(t) /\ running = t /\ pc[t] = "degradation_disable"
    /\ InjectThenGo(t, Node_execute_command_for_node(t, cfg[t].ns_pid,
                          IF cfg[t].fault_type = "custom"
                          THEN CustomCommands(cfg[t].fault_args)[2] ELSE NoCommand, FALSE),
                    "degradation_loop",
                    [loc[t] EXCEPT !.i = @ + 1,
                                   !.value = Min(loc[t].value + loc[t].step_size, loc[t].end)])

\* range(number_of_steps) is exhausted: _inject_degradation() returns
NodeDegradationReturn(t) ==
    /\ IsNode(t) /\ running = t /\ pc[t] = "degradation_loop"
    /\ loc[t].i >= loc[t].num
    /\ Quiet(t, "post", <<>>, loc[t], t)

\* _inject_persistent(): the activation, sleep the injection time
NodePersistentEnable(t) ==
    LET fault_args == cfg[t].fault_args
        size == get_cgroup_size(t)
    IN
    /\ IsNode(t) /\ running = t /\ pc[t] = "persistent"
    /\ IF cfg[t].fault_type = "custom"
       THEN IF Len(fault_args) < 1
            \* len(fault_args) < 2 is tested first: fault_args[0] raises IndexError
            THEN Quiet(t, "crashed", <<>>, loc[t], Idle)
            ELSE InjectThenSleep(t, Node_execute_command_for_node(t, cfg[t].ns_pid,
                                        Command(Text(fault_args[1])), TRUE),
                                 "sleep_persistent", cfg[t].injection, loc[t])
       ELSE IF cfg[t].fault_type = "stress_cpu"
       THEN IF size.exc THEN Quiet(t, "crashed", <<>>, loc[t], Idle)
            \* float(None) raises TypeError
            ELSE IF size.none THEN Quiet(t, "crashed", <<ErrorEv(t)>>, loc[t], Idle)
            ELSE IF Len(fault_args) < 1
            THEN InjectThenSleep(t,
                    LET r == Node_execute_command_for_node(t, cfg[t].ns_pid,
                                 Command(StressCommand(50, size.val, cfg[t].injection \div 1000)),
                                 TRUE)
                    IN  [r EXCEPT !.events = <<ErrorEv(t)>> \o @],
                    "sleep_persistent", cfg[t].injection, loc[t])
            ELSE InjectThenSleep(t, Node_execute_command_for_node(t, cfg[t].ns_pid,
                                        Command(StressCommand(IntOf(fault_args[1]), size.val,
                                                              cfg[t].injection \div 1000)),
                                        TRUE),
                                 "sleep_persistent", cfg[t].injection, loc[t])
       ELSE Quiet(t, "post", <<ErrorEv(t)>>, loc[t], t)

\* _inject_persistent(): the deactivation
NodePersistentDisable(t) ==
    /\ IsNode(t) /\ running = t /\ pc[t] = "persistent_disable"
    /\ InjectThenGo(t, Node_execute_command_for_node(t, cfg[t].ns_pid,
                          IF cfg[t].fault_type = "custom" /\ Len(cfg[t].fault_args) >= 2
                          THEN Command(Text(cfg[t].fault_args[2])) ELSE NoCommand, FALSE),
                    "post", loc[t])

\* do_injection(): the post-injection sleep
NodePostInjection(t) ==
    /\ IsNode(t) /\ running = t /\ pc[t] = "post"
    /\ Quiet(t, "sleep_post", <<SleepEv(t, cfg[t].post)>>, loc[t], Idle)

\* do_injection() and go() return
NodeReturn(t) ==
    /\ IsNode(t) /\ running = t /\ pc[t] = "return"
    /\ Quiet(t, "done", <<>>, loc[t], Idle)

(***************************************************************************)
(* The fault descriptors the injectors are constructed with.               *)
(***************************************************************************)
\* the record of the constructor arguments of one injector
Descriptor(inj, fault_type, fault_args, fault_pattern, fault_pattern_args, filter, ns_pid, interfaces, cgroup, injection) ==
    [inj |-> inj, fault_type |-> fault_type, fault_args |-> fault_args,
     fault_pattern |-> fault_pattern, fault_pattern_args |-> fault_pattern_args,
     protocol |-> filter.protocol, dst_ports |-> filter.dst_ports,
     src_ports |-> filter.src_ports, ns_pid |-> ns_pid, device |-> "eth0",
     interfaces |-> interfaces, cgroup |-> cgroup.state,
     cfs_quota_us |-> cgroup.quota, cfs_period_us |-> cgroup.period,
     pre |-> 1000, injection |-> injection, post |-> 500]

Filter(protocol, dst_ports, src_ports) ==
    [protocol |-> protocol, dst_ports |-> dst_ports, src_ports |-> src_ports]

NoFilter == Filter("any", NoPorts, NoPorts)

Filters ==
    {NoFilter,
     Filter("TCP", NoPorts, NoPorts),
     Filter("TCP", Ports(<<80>>), NoPorts),
     Filter("UDP", Ports(<<>>), Ports(<<>>)),
     Filter("TCP", Ports(<<80, 443>>), Ports(<<1234>>)),
     Filter("tcp", Ports(<<80>>), NoPorts)}

Cgroup(state, quota, period) == [state |-> state, quota |-> quota, period |-> period]

NoCgroup == Cgroup("ok", 100000, 100000)

\* the cpu cgroup of a stress_cpu target: readable with quota/period 0.5 or 2,
\* /proc/{pid}/cgroup unreadable, without a cpu,cpuacct line, or cgget failing
Cgroups ==
    {Cgroup("ok", 50000, 100000), Cgroup("ok", 200000, 100000),
     Cgroup("unreadable", 0, 0), Cgroup("nomatch", 0, 0), Cgroup("cgget_fails", 0, 0)}

BurstArgs ==
    {<<>>, <<500>>, <<500, 2000>>, <<1500, 1000>>, <<1000, 1000>>, <<500, 0>>,
     <<300, 800>>, <<200, 500>>}

DegradationArgs ==
    {<<>>, <<10>>, <<10, 500>>, <<10, 1000, 20>>, <<10, 1000, 0, 50>>, <<30, 500, 0, 50>>,
     <<20, 1000, 60, 50>>, <<60, 1000, 0, 200>>, <<10, 1000, 150, 200>>,
     <<-10, 1000, 30, 50>>, <<10, 0, 0, 50>>}

\* the pattern arguments drawn for a fault pattern
PatternArgs(fault_pattern) ==
    CASE fault_pattern = "burst" -> BurstArgs
      [] fault_pattern = "degradation" -> DegradationArgs
      [] fault_pattern = "random" -> {<<>>, <<10>>, <<25>>}
      [] OTHER -> {<<>>}

\* the patterns of the data model, and a value that is none of them
Patterns == {"persistent", "burst", "degradation", "random", "bogus"}

\* the injection times: whole seconds up to the bound, and the 5 s of the
\* burst and degradation scenarios
InjectionTimes(fault_pattern_args) ==
    {1000 * n : n \in 0..MaxInjection}
    \cup (IF fault_pattern_args \in {<<500, 2000>>, <<10, 1000, 0, 50>>} THEN {5000} ELSE {})

LinkTypes ==
    {"delay", "loss", "corrupt", "duplicate", "reorder", "bottleneck", "redirect", "down"}

LinkFaultArgs(fault_type) ==
    CASE fault_type = "delay" -> {<<>>, <<Arg(<<"100ms">>)>>}
      [] fault_type = "bottleneck" ->
           {<<>>, <<Number(256)>>, <<Number(256), Number(3200)>>,
            <<Number(256), Number(3200), Number(6000)>>}
      [] fault_type = "redirect" ->
           {<<>>, <<Arg(<<"eth1">>)>>, <<Arg(<<"eth1">>), Arg(<<"mirror">>)>>,
            <<Arg(<<"eth1">>), Arg(<<"copy">>)>>}
      [] OTHER -> {<<>>}

LinkDescriptors ==
    UNION { UNION { UNION {
        { Descriptor("link", ft, fa, fp, pa, f, "100", <<>>, NoCgroup, inj)
            : f \in Filters, inj \in InjectionTimes(pa) }
        \cup (IF fp \in {"persistent", "random"}
              THEN { Descriptor("link", ft, fa, fp, pa, f, None, <<>>, NoCgroup, 1000)
                        : f \in Filters }
              ELSE {})
      : pa \in PatternArgs(fp) } : fp \in Patterns } : <<ft, fa>> \in
          UNION { {<<x, y>> : y \in LinkFaultArgs(x)} : x \in LinkTypes } }

MultiDescriptors ==
    UNION { UNION {
        { Descriptor("multi", "multi-fault", <<>>, fp, pa, NoFilter, pid, ifs, NoCgroup, inj)
            : pid \in {"100", None}, ifs \in {<<"eth0">>, <<"eth0", "eth1">>},
              inj \in InjectionTimes(pa) }
      : pa \in PatternArgs(fp) } : fp \in Patterns }

NodeTypes == {"stress_cpu", "custom", "bogus"}

NodeFaultArgs(fault_type) ==
    CASE fault_type = "stress_cpu" -> {<<>>, <<Number(40)>>, <<Number(150)>>}
      [] fault_type = "custom" ->
           {<<>>,
            <<Arg(<<"set_rate ", "{}", " &">>)>>,
            <<Arg(<<"set_rate ", "{}", " &">>), Arg(<<"clear_rate">>)>>,
            <<Arg(<<"set_rate ", "{}", " ", "{}", " &">>), Arg(<<"clear_rate">>)>>,
            <<Arg(<<"dmesg ", "|", " tail -n 1 > /tmp/fault">>), Arg(<<"rm /tmp/fault">>)>>}
      [] OTHER -> {<<>>}

NodeDescriptors ==
    UNION { UNION { UNION {
        { Descriptor("node", ft, fa, fp, pa, NoFilter, "100", <<>>, cg, inj)
            : cg \in (IF ft = "stress_cpu" THEN Cgroups ELSE {NoCgroup}),
              inj \in InjectionTimes(pa) }
        \cup (IF fp = "persistent" /\ ft = "custom"
              THEN { Descriptor("node", ft, fa, fp, pa, NoFilter, None, <<>>, NoCgroup, 1000) }
              ELSE {})
      : pa \in PatternArgs(fp) } : fp \in Patterns } : <<ft, fa>> \in
          UNION { {<<x, y>> : y \in NodeFaultArgs(x)} : x \in NodeTypes } }
    \* 40% of stress for 10 s in a cgroup of half a CPU
    \cup { Descriptor("node", "stress_cpu", <<Number(40)>>, "persistent", <<>>, NoFilter,
                      "100", <<>>, Cgroup("ok", 50000, 100000), 10000) }

Descriptors == LinkDescriptors \cup MultiDescriptors \cup NodeDescriptors

(***************************************************************************)
(* Construction.                                                           *)
(***************************************************************************)
\* NodeInjector.__init__ -> _get_cgroup_name(): without a cpu,cpuacct line
\* match is None and match.group(2) raises AttributeError out of __init__
ConstructorRaises(d) ==
    d.inj = "node" /\ d.fault_type = "stress_cpu" /\ d.cgroup = "nomatch"

\* _get_cgroup_name(): cat /proc/{pid}/cgroup fails: log.error, returns None
ConstructorLogsError(d) ==
    d.inj = "node" /\ d.fault_type = "stress_cpu" /\ d.cgroup = "unreadable"

\* the state after the injectors of the faults `tags` are constructed from the
\* descriptors d, their go() not yet started
Constructed(tags, d) ==
    /\ cfg = d
    /\ pc = [t \in tags |-> IF ConstructorRaises(d[t]) THEN "crashed" ELSE "new"]
    /\ loc = [t \in tags |-> NoLocals]
    /\ running = Idle
    /\ retcode = [t \in tags |-> [last |-> 0, add_failed |-> FALSE]]

\* one injector, tagged "f1", constructed from any descriptor
Init ==
    \E d \in [{"f1"} -> Descriptors] :
        /\ Constructed({"f1"}, d)
        /\ trace = IF ConstructorLogsError(d["f1"]) THEN <<ErrorEv("f1")>> ELSE <<>>

\* the steps the event loop takes by itself: it resumes a task whose sleep has
\* returned and runs it to its next await
Run ==
    \/ \E t \in Tasks : Wake(t)
    \/ \E t \in Tasks : Link_go(t)
    \/ \E t \in Tasks : Link_do_injection(t)
    \/ \E t \in Tasks : Link_inject_burst_pattern(t)
    \/ \E t \in Tasks : LinkBurstEnable(t)
    \/ \E t \in Tasks : LinkBurstDisable(t)
    \/ \E t \in Tasks : LinkBurstReturn(t)
    \/ \E t \in Tasks : Link_inject_degradation_pattern(t)
    \/ \E t \in Tasks : LinkDegradationEnable(t)
    \/ \E t \in Tasks : LinkDegradationDisable(t)
    \/ \E t \in Tasks : LinkDegradationReturn(t)
    \/ \E t \in Tasks : LinkPersistentEnable(t)
    \/ \E t \in Tasks : LinkPersistentDisable(t)
    \/ \E t \in Tasks : LinkPostInjection(t)
    \/ \E t \in Tasks : LinkReturn(t)
    \/ \E t \in Tasks : Multi_go(t)
    \/ \E t \in Tasks : Multi_do_injection(t)
    \/ \E t \in Tasks : Multi_inject_burst(t)
    \/ \E t \in Tasks : MultiBurstEnable(t)
    \/ \E t \in Tasks : MultiBurstDisable(t)
    \/ \E t \in Tasks : MultiBurstReturn(t)
    \/ \E t \in Tasks : MultiPersistentEnable(t)
    \/ \E t \in Tasks : MultiPersistentDisable(t)
    \/ \E t \in Tasks : MultiPostInjection(t)
    \/ \E t \in Tasks : MultiReturn(t)
    \/ \E t \in Tasks : Node_go(t)
    \/ \E t \in Tasks : Node_do_injection(t)
    \/ \E t \in Tasks : Node_inject_burst(t)
    \/ \E t \in Tasks : NodeBurstEnable(t)
    \/ \E t \in Tasks : NodeBurstDisable(t)
    \/ \E t \in Tasks : NodeBurstReturn(t)
    \/ \E t \in Tasks : Node_inject_degradation(t)
    \/ \E t \in Tasks : NodeDegradationEnable(t)
    \/ \E t \in Tasks : NodeDegradationDisable(t)
    \/ \E t \in Tasks : NodeDegradationReturn(t)
    \/ \E t \in Tasks : NodePersistentEnable(t)
    \/ \E t \in Tasks : NodePersistentDisable(t)
    \/ \E t \in Tasks : NodePostInjection(t)
    \/ \E t \in Tasks : NodeReturn(t)

\* the event loop, and whoever holds the task and cancels it
Next ==
    \/ Run
    \/ \E t \in Tasks : Cancel(t)

Spec == Init /\ [][Next]_vars

\* go() awaited to its end by asyncio.run(): no one cancels the task, every
\* sleep returns and the loop runs the task on
FairSpec == Init /\ [][Run]_vars /\ WF_vars(Run)

(***************************************************************************)
(* The executors called on their own, with any command or None.            *)
(***************************************************************************)
\* a direct call of execute_command_for_node with the given arguments
CallEv(t, enable, command_to_execute) ==
    Ev(t, "call", enable, command_to_execute.cmd, <<>>, IF command_to_execute.none THEN 1 ELSE 0)

\* the commands the executors are called with
ExecutorCommands ==
    {NoCommand, Command(<<"true">>), Command(<<"dmesg ", "|", " tail -n 1 > /tmp/fault">>)}

\* MultiInjector.execute_command_for_node(pid, command, enable)
MultiExecutorCall(t) ==
    /\ IsMulti(t) /\ running = Idle /\ pc[t] = "new"
    /\ \E c \in ExecutorCommands, enable \in BOOLEAN :
          LET r == Multi_execute_command_for_node(t, cfg[t].ns_pid, c, enable)
          IN  InjectThenGo(t, [r EXCEPT !.events = <<CallEv(t, enable, c)>> \o @],
                           "returned", loc[t])

\* NodeInjector.execute_command_for_node(pid, command, enable)
NodeExecutorCall(t) ==
    /\ IsNode(t) /\ running = Idle /\ pc[t] = "new"
    /\ \E c \in ExecutorCommands, enable \in BOOLEAN :
          LET r == Node_execute_command_for_node(t, cfg[t].ns_pid, c, enable)
          IN  InjectThenGo(t, [r EXCEPT !.events = <<CallEv(t, enable, c)>> \o @],
                           "returned", loc[t])

\* a Multi or Node injector, constructed
ExecInit == Init /\ \A t \in Tasks : IsMulti(t) \/ IsNode(t)

ExecNext ==
    \/ \E t \in Tasks : MultiExecutorCall(t)
    \/ \E t \in Tasks : NodeExecutorCall(t)

ExecSpec == ExecInit /\ [][ExecNext]_vars

(***************************************************************************)
(* The unfiltered synthesizer called on its own for a random redirect of    *)
(* any percentage.                                                          *)
(***************************************************************************)
\* percentage_to_redirect = int(fault_pattern_args[0])
Percentages == 0..100

\* the random redirects: any percentage, to eth1 with and without a mode
RedirectDescriptors ==
    {Descriptor("link", "redirect", fa, "random", <<p>>, NoFilter, pid, <<>>, NoCgroup, 1000)
        : fa \in LinkFaultArgs("redirect"), p \in Percentages, pid \in {"100", None}}

\* what the synthesizer returned: a command, None, or an exception
ResultEv(t, enable, r) ==
    Ev(t, IF r.exc THEN "raise" ELSE IF r.none THEN "none" ELSE "result", enable, r.val,
       cfg[t].fault_pattern_args, 0)

\* LinkInjector.make_nics_injection_command(...) for the fault of t and a verb
SynthesizerCall(t) ==
    /\ IsLink(t) /\ running = Idle /\ pc[t] = "new"
    /\ \E enable \in BOOLEAN :
          LET r == make_nics_injection_command(cfg[t].ns_pid, cfg[t].device,
                       cfg[t].fault_type, cfg[t].fault_pattern, cfg[t].fault_pattern_args,
                       cfg[t].fault_args, TcCmd(enable))
          IN  Quiet(t, "returned", <<ResultEv(t, enable, r)>>, loc[t], Idle)

\* a link injector of a random redirect, constructed
SynthInit ==
    /\ \E d \in [{"f1"} -> RedirectDescriptors] : Constructed({"f1"}, d)
    /\ trace = <<>>

SynthNext == \E t \in Tasks : SynthesizerCall(t)

SynthSpec == SynthInit /\ [][SynthNext]_vars

(***************************************************************************)
(* Two fault tasks on one event loop.                                      *)
(***************************************************************************)
\* a descriptor with another target interface
OnDevice(d, device) == [d EXCEPT !.device = device]

\* the faults that share the loop: a filtered persistent loss, a burst on a
\* second interface, a degradation, and faults of the Multi and Node injectors
LoopDescriptors ==
    {Descriptor("link", "loss", <<>>, "persistent", <<>>,
                Filter("TCP", Ports(<<80, 443>>), Ports(<<1234>>)), "100", <<>>, NoCgroup, 1000),
     OnDevice(Descriptor("link", "loss", <<>>, "burst", <<300, 800>>, NoFilter, "100", <<>>,
                         NoCgroup, 1600), "eth1"),
     Descriptor("link", "delay", <<Arg(<<"100ms">>)>>, "degradation", <<10, 1000>>, NoFilter,
                "100", <<>>, NoCgroup, 2000),
     Descriptor("multi", "multi-fault", <<>>, "persistent", <<>>, NoFilter, "100",
                <<"eth0">>, NoCgroup, 1000),
     Descriptor("multi", "multi-fault", <<>>, "burst", <<500, 2000>>, NoFilter, "100",
                <<"eth0", "eth1">>, NoCgroup, 2000),
     Descriptor("node", "custom", <<Arg(<<"set_rate ", "{}", " &">>)>>, "persistent", <<>>,
                NoFilter, "100", <<>>, NoCgroup, 1000),
     Descriptor("node", "stress_cpu", <<Number(40)>>, "burst", <<500, 2000>>, NoFilter, "100",
                <<>>, Cgroup("ok", 50000, 100000), 2000),
     Descriptor("node", "custom", <<Arg(<<"set_rate ", "{}", " &">>), Arg(<<"clear_rate">>)>>,
                "degradation", <<10, 1000>>, NoFilter, "100", <<>>, NoCgroup, 1000)}

\* two injectors, tagged "f1" and "f2", constructed and started together:
\* a link fault on eth0 and any of the faults above
LoopInit ==
    /\ \E d \in [{"f1", "f2"} -> LoopDescriptors] :
          /\ d["f1"].inj = "link" /\ d["f1"].device = "eth0"
          /\ Constructed({"f1", "f2"}, d)
    /\ trace = <<>>

LoopSpec == LoopInit /\ [][Next]_vars

(***************************************************************************)
(* What a run shows: projections of the trace.                             *)
(***************************************************************************)
\* the events of task t, in order
TaskTrace(t) == SelectSeq(trace, LAMBDA e : e.task = t)

\* the logger calls of task t, in order
LoggerCalls(t) == SelectSeq(trace, LAMBDA e : e.task = t /\ e.kind \in {"active", "inactive"})

\* the command-synthesis calls of task t, in order
SynthCalls(t) == SelectSeq(trace, LAMBDA e : e.task = t /\ e.kind = "synth")

\* the activations and deactivations of task t: shell commands and logger calls
Injections(t) ==
    SelectSeq(trace, LAMBDA e : e.task = t /\ e.kind \in {"cmd", "active", "inactive"})

\* the sleeps task t has requested, in order
Sleeps(t) == SelectSeq(trace, LAMBDA e : e.task = t /\ e.kind = "sleep")

\* the task is over
Ended(t) == pc[t] \in {"done", "crashed", "cancelled"}

\* the active phase of t has returned to do_injection()
ActivePhaseOver(t) == pc[t] \in {"post", "sleep_post", "return", "done"}

\* an activation of t has been executed or logged and is not yet undone
FaultOpen(t) == Injections(t) # <<>> /\ Injections(t)[Len(Injections(t))].enable

\* The timeline of events: <<"Add", 0>> for the commands and logger calls of one
\* activation, <<"Del", 0>> for those of one deactivation, <<"sleep", ms>> for a
\* requested sleep; error logs and synthesis calls are left out.
RECURSIVE Timeline(_)
Timeline(events) ==
    IF events = <<>> THEN <<>>
    ELSE LET e == Head(events)
             rest == Timeline(Tail(events))
             sym == IF e.enable THEN <<"Add", 0>> ELSE <<"Del", 0>>
         IN  IF e.kind = "sleep" THEN <<<<"sleep", e.arg>>>> \o rest
             ELSE IF e.kind \in {"cmd", "active", "inactive"}
             THEN IF rest # <<>> /\ rest[1] = sym THEN rest ELSE <<sym>> \o rest
             ELSE rest

\* n burst cycles: Add, sleep duration, Del, sleep period - duration
RECURSIVE BurstCycles(_, _, _)
BurstCycles(n, duration, period) ==
    IF n <= 0 THEN <<>>
    ELSE <<<<"Add", 0>>, <<"sleep", duration>>, <<"Del", 0>>, <<"sleep", period - duration>>>>
         \o BurstCycles(n - 1, duration, period)

\* the time the sleeps of a sequence of events take
RECURSIVE Slept(_)
Slept(events) ==
    IF events = <<>> THEN 0 ELSE SleepElapsed(Head(events).arg) + Slept(Tail(events))

\* the sleeps of the active phase of a task whose active phase is over: all but
\* the pre-injection sleep and, once requested, the post-injection sleep
ActiveSleeps(t) ==
    SubSeq(Sleeps(t), 2, IF pc[t] = "post" THEN Len(Sleeps(t)) ELSE Len(Sleeps(t)) - 1)

\* the phase of the timeline a task is in
Phase(p) ==
    CASE p \in {"new", "sleep_pre"} -> "PreWait"
      [] p \in {"sleep_post", "return"} -> "PostWait"
      [] p = "done" -> "Done"
      [] p \in {"crashed", "cancelled"} -> "Aborted"
      [] OTHER -> "Active"

(***************************************************************************)
(* Claims.                                                                 *)
(***************************************************************************)
\* C1 (logger pairing): in the logger calls of every fault task, each
\* set_fault_active is followed by exactly one set_fault_inactive before the next
\* set_fault_active or the end of the task, cancellation included.
C1_LoggerPairing ==
    \A t \in Tasks :
        LET calls == LoggerCalls(t) IN
        \A i \in DOMAIN calls :
            calls[i].kind = "active" =>
                /\ i = Len(calls) => ~Ended(t)
                /\ i < Len(calls) => calls[i + 1].kind = "inactive"
                /\ i + 2 <= Len(calls) => calls[i + 2].kind = "active"

\* C2 (cancellation teardown): a task cancelled in a sleep of its active phase
\* with an activation executed and not undone has run the deactivation before it
\* exits, so no cancelled task is left with its fault open.
C2_CancellationTeardown ==
    \A t \in Tasks : pc[t] = "cancelled" => ~FaultOpen(t)

\* the phases follow PreWait, Active, PostWait, Done; a task leaves the order
\* only by an exception or a cancellation
PhaseOrder ==
    {<<"PreWait", "Active">>, <<"Active", "PostWait">>, <<"PostWait", "Done">>,
     <<"PreWait", "Aborted">>, <<"Active", "Aborted">>, <<"PostWait", "Aborted">>}

\* C3 (timeline order): every task moves through PreWait, Active, PostWait, Done
\* in that order; PreWait and PostWait end only when their sleep returns; a
\* command is executed only in the Active phase: the pre-injection sleep is the
\* first event of a task, and once the post-injection sleep is requested no
\* command or logger call follows it.
C3_TimelineOrder ==
    /\ [](\A t \in Tasks :
            LET events == TaskTrace(t)
                shown == SelectSeq(events, LAMBDA e : e.kind # "error")
            IN  /\ Phase(pc[t]) # "PreWait" /\ pc[t] # "crashed" =>
                      /\ shown # <<>>
                      /\ shown[1] = SleepEv(t, cfg[t].pre)
                /\ Phase(pc[t]) \in {"PostWait", "Done"} =>
                      /\ events[Len(events)] = SleepEv(t, cfg[t].post)
                      /\ Len(Sleeps(t)) >= 2
                /\ Phase(pc[t]) = "PreWait" => Injections(t) = <<>>)
    /\ [][\A t \in Tasks :
            /\ Phase(pc[t]') # Phase(pc[t]) => <<Phase(pc[t]), Phase(pc[t]')>> \in PhaseOrder
            /\ Phase(pc[t]) = "PreWait" /\ Phase(pc[t]') = "Active" => pc[t] = "sleep_pre"
            /\ Phase(pc[t]) = "PostWait" /\ Phase(pc[t]') = "PostWait" /\ pc[t]' # pc[t]
                  => pc[t] = "sleep_post"
            /\ Injections(t)' # Injections(t) =>
                  Phase(pc[t]) = "Active" /\ Phase(pc[t]') \in {"Active", "PostWait"}]_vars

\* C3 witness: a task that executed commands is Done
C3_Witness ==
    \E t \in Tasks : pc[t] = "done" /\ Len(Injections(t)) >= 4 /\ Len(Sleeps(t)) >= 3

\* the cpu cgroup of a stress_cpu target cannot be sized
CgroupFails(t) ==
    IsNode(t) /\ cfg[t].fault_type = "stress_cpu" /\ cfg[t].cgroup # "ok"

\* the fault type of a Node injector is one it knows
KnownType(t) == IsNode(t) => cfg[t].fault_type \in {"custom", "stress_cpu"}

\* the fault pattern is none of persistent, burst, degradation, random
UnknownPattern(t) ==
    cfg[t].fault_pattern \notin {"persistent", "burst", "degradation", "random"}

\* C4 (unknown fault_pattern): for every injector a descriptor with an unknown
\* fault_pattern executes no Add/Del command and makes no logger call, logs an
\* error, and still performs both sleeps and reaches Done: the task never ends by
\* an exception, and once its active phase is over it has logged the error
\* between the two sleeps and nothing else.
C4_UnknownPattern ==
    \A t \in Tasks :
        UnknownPattern(t) /\ ~CgroupFails(t) =>
            /\ Injections(t) = <<>>
            /\ pc[t] # "crashed"
            /\ pc[t] = "done" =>
                  SelectSeq(TaskTrace(t), LAMBDA e : e.kind # "synth")
                      = <<SleepEv(t, cfg[t].pre), ErrorEv(t), SleepEv(t, cfg[t].post)>>

\* a burst with both pattern arguments and a period that is not zero, of an
\* injector whose cycle sleeps are the pattern arguments themselves
PlainBurst(t) ==
    /\ cfg[t].fault_pattern = "burst"
    /\ Len(cfg[t].fault_pattern_args) >= 2
    /\ cfg[t].fault_pattern_args[2] > 0
    /\ IsLink(t) \/ IsMulti(t) \/ (IsNode(t) /\ cfg[t].fault_type = "custom")

\* C5 (burst cycles): with pattern_args = [duration_ms, period_ms] the active
\* phase of a burst of the Link and Multi injectors (and of a Node custom fault)
\* is exactly n = floor(injection_time / period) cycles of Add, sleep duration,
\* Del, sleep period - duration, between the pre- and post-injection sleeps.
C5_BurstCycles ==
    \A t \in Tasks :
        PlainBurst(t) /\ ActivePhaseOver(t) =>
            Timeline(TaskTrace(t))
                = <<<<"sleep", cfg[t].pre>>>>
                  \o BurstCycles(cfg[t].injection \div cfg[t].fault_pattern_args[2],
                                 cfg[t].fault_pattern_args[1], cfg[t].fault_pattern_args[2])
                  \o (IF pc[t] = "post" THEN <<>> ELSE <<<<"sleep", cfg[t].post>>>>)

\* C5 witness: the burst delay of 500 ms per 2000 ms over 5 s is Done after two
\* cycles of 0.5 s active and 1.5 s idle
C5_Witness ==
    \E t \in Tasks :
        /\ IsLink(t) /\ cfg[t].fault_type = "delay" /\ cfg[t].fault_pattern = "burst"
        /\ cfg[t].fault_pattern_args = <<500, 2000>> /\ cfg[t].injection = 5000
        /\ pc[t] = "done"
        /\ Timeline(TaskTrace(t))
             = <<<<"sleep", 1000>>,
                 <<"Add", 0>>, <<"sleep", 500>>, <<"Del", 0>>, <<"sleep", 1500>>,
                 <<"Add", 0>>, <<"sleep", 500>>, <<"Del", 0>>, <<"sleep", 1500>>,
                 <<"sleep", 500>>>>

\* C6 (burst timing): for every duration and period a burst accepts, the sleeps
\* inside the burst loop take exactly n * period in total, n = floor(injection_time
\* / period), so the burst phase lasts n * period plus command execution time.
C6_BurstTiming ==
    \A t \in Tasks :
        /\ cfg[t].fault_pattern = "burst"
        /\ Len(cfg[t].fault_pattern_args) >= 2
        /\ cfg[t].fault_pattern_args[2] > 0
        /\ KnownType(t)
        /\ ActivePhaseOver(t)
        => Slept(ActiveSleeps(t))
             = (cfg[t].injection \div cfg[t].fault_pattern_args[2])
               * cfg[t].fault_pattern_args[2]

\* the number of activations in a timeline
Activations(t) == Len(SelectSeq(Timeline(TaskTrace(t)), LAMBDA x : x[1] = "Add"))

\* C7 (burst defaults): for every injector a burst with fewer than two pattern
\* arguments logs an error, uses duration 1000 ms and period 2000 ms and runs its
\* cycles to completion instead of failing.
C7_BurstDefaults ==
    \A t \in Tasks :
        /\ cfg[t].fault_pattern = "burst"
        /\ Len(cfg[t].fault_pattern_args) < 2
        /\ ~CgroupFails(t)
        => /\ pc[t] # "crashed"
           /\ pc[t] \in {"burst_loop", "sleep_burst_on", "burst_disable", "sleep_burst_off"} =>
                 /\ loc[t].period = 2000
                 /\ \E i \in DOMAIN trace : trace[i] = ErrorEv(t)
           /\ ActivePhaseOver(t) /\ KnownType(t)
                 => Activations(t) = cfg[t].injection \div 2000

\* a degradation of a Link injector or of a Node injector of a known fault type
Degradation(t) ==
    /\ cfg[t].fault_pattern = "degradation"
    /\ IsLink(t) \/ IsNode(t)
    /\ KnownType(t)

\* pattern_args = [step_size, step_length_ms, start, end], defaults (5, 1000, 0, 100)
PatternArg(t, i, default) ==
    IF Len(cfg[t].fault_pattern_args) >= i THEN cfg[t].fault_pattern_args[i] ELSE default

\* the intensity values submitted to command synthesis, in order
Intensities(t) == [i \in DOMAIN SynthCalls(t) |-> SynthCalls(t)[i].pargs[1]]

\* the intensity values of the activations, in order
ActivationIntensities(t) ==
    LET adds == SelectSeq(SynthCalls(t), LAMBDA e : e.enable)
    IN  [i \in DOMAIN adds |-> adds[i].pargs[1]]

\* C8 (degradation monotonicity): in every degradation run, whatever step_size,
\* start and end, the intensity values submitted to command synthesis are
\* non-decreasing and each is at most end.
C8_DegradationMonotone ==
    \A t \in Tasks :
        Degradation(t) =>
            LET v == Intensities(t) IN
            /\ \A i, j \in DOMAIN v : i < j => v[i] <= v[j]
            /\ \A i \in DOMAIN v : v[i] <= PatternArg(t, 4, 100)

\* the end a degradation ramps to: for a link at most 100
RampEnd(t) ==
    IF IsLink(t) THEN Min(PatternArg(t, 4, 100), 100) ELSE PatternArg(t, 4, 100)

\* C9 (degradation steps): a degradation run performs exactly
\* k = floor(injection_time / step_length) steps, step i (from 0) activates with
\* intensity min(start + i * step_size, end), and its activations and
\* deactivations alternate.
C9_DegradationSteps ==
    \A t \in Tasks :
        Degradation(t) /\ PatternArg(t, 2, 1000) > 0 /\ ActivePhaseOver(t) =>
            LET k == cfg[t].injection \div PatternArg(t, 2, 1000) IN
            /\ ActivationIntensities(t)
                 = [i \in 1..k |->
                       Min(PatternArg(t, 3, 0) + (i - 1) * PatternArg(t, 1, 5), RampEnd(t))]
            /\ Activations(t) = k
            /\ ~FaultOpen(t)

\* C10 (link degradation upper bound): in every degradation run of a Link
\* injector no intensity above 100 is passed to command synthesis.
C10_LinkDegradationBound ==
    \A t \in Tasks :
        IsLink(t) /\ cfg[t].fault_pattern = "degradation" =>
            \A i \in DOMAIN Intensities(t) : Intensities(t)[i] <= 100

(***************************************************************************)
(* The traffic-control state of the target interface, as the commands the  *)
(* link synthesizers emit change it.                                       *)
(***************************************************************************)
\* An isolated interface: up, with no root qdisc, no ingress qdisc, no filter.
CleanIface ==
    [up |-> TRUE, root |-> "none", leaf |-> FALSE, root_filters |-> 0,
     ingress |-> FALSE, ingress_filters |-> 0]

\* the fault types that are netem options
NetemTypes == {"delay", "loss", "corrupt", "duplicate", "reorder"}

\* a command without the base_command in front of it
StripBase(cmd) ==
    IF cmd # <<>> /\ cmd[1] = "nsenter --target " THEN SubSeq(cmd, 4, Len(cmd)) ELSE cmd

\* the statements of a command line: the two sides of " ; ", or the command
Statements(cmd) ==
    IF HasPiece(cmd, " ; ")
    THEN LET k == CHOOSE i \in DOMAIN cmd : cmd[i] = " ; "
         IN  <<SubSeq(cmd, 1, k - 1), SubSeq(cmd, k + 1, Len(cmd))>>
    ELSE <<cmd>>

\* the root qdisc is deleted, and with it its classes, filters and leaves
WithoutRoot(s) == [s EXCEPT !.root = "none", !.leaf = FALSE, !.root_filters = 0]

\* the ingress qdisc is deleted, and with it its filters
WithoutIngress(s) == [s EXCEPT !.ingress = FALSE, !.ingress_filters = 0]

\* One statement c (without base_command) applied to the interface state s.
\* A statement tc rejects (a qdisc that exists already or does not exist, a
\* parent that does not exist, a netem option that is none) changes nothing.
ApplyStatement(s, c) ==
    IF c = <<>> THEN s
    ELSE IF c[1] = "ifconfig " THEN [s EXCEPT !.up = (c[3] = " up")]
    ELSE IF c[1] = "tc qdisc " THEN
        \* make_nics_injection_command: 'tc qdisc ' + tc_cmd + ' dev ' + device + ...
        IF c[5] = " root netem " THEN
            IF c[6] \notin NetemTypes THEN s
            ELSE IF c[2] = "add" /\ s.root = "none" THEN [s EXCEPT !.root = "netem"]
            ELSE IF c[2] = "del" /\ s.root = "netem" THEN WithoutRoot(s)
            ELSE s
        ELSE IF c[5] = " root tbf rate " THEN
            IF c[2] = "add" /\ s.root = "none" THEN [s EXCEPT !.root = "tbf"]
            ELSE IF c[2] = "del" /\ s.root = "tbf" THEN WithoutRoot(s)
            ELSE s
        ELSE IF c[5] = " handle ffff: ingress " THEN
            IF c[2] = "add" THEN [s EXCEPT !.ingress = TRUE] ELSE s
        ELSE IF c[5] = " ingress " THEN
            IF c[2] = "del" THEN WithoutIngress(s) ELSE s
        ELSE s
    ELSE IF c[1] = "tc filter " THEN
        \* the mirred filter on the ingress qdisc
        IF c[2] = "add" /\ s.ingress THEN [s EXCEPT !.ingress_filters = @ + 1] ELSE s
    ELSE IF c[1] = "tc qdisc add dev " THEN
        \* make_filtered_nics_injection_commands: the root and the leaf
        IF c[3] = " root handle 1: prio" THEN
            IF s.root = "none" THEN [s EXCEPT !.root = "prio"] ELSE s
        ELSE IF c[3] = " handle ffff: ingress " THEN [s EXCEPT !.ingress = TRUE]
        ELSE IF c[3] = " parent 1:1 handle 2: " THEN
            IF s.root = "prio" /\ ~s.leaf
               /\ (c[4] = "tbf rate " \/ (c[4] = "netem " /\ c[5] \in NetemTypes))
            THEN [s EXCEPT !.leaf = TRUE] ELSE s
        ELSE s
    ELSE IF c[1] = "tc qdisc del dev " THEN
        IF c[3] = " ingress " THEN WithoutIngress(s)
        ELSE IF c[3] = " root handle 1: prio" /\ s.root = "prio" THEN WithoutRoot(s)
        ELSE s
    ELSE IF c[1] = "tc filter add dev " THEN
        IF c[4] = "parent 1:0" /\ s.root = "prio" THEN [s EXCEPT !.root_filters = @ + 1]
        ELSE IF c[4] = "parent ffff:" /\ s.ingress THEN [s EXCEPT !.ingress_filters = @ + 1]
        ELSE s
    ELSE s

\* a command line applied to the interface state: its statements in order
ApplyCommand(s, cmd) ==
    LET st == Statements(cmd)
        first == ApplyStatement(s, StripBase(st[1]))
    IN  IF Len(st) = 1 THEN first ELSE ApplyStatement(first, StripBase(st[2]))

\* the interface state after the shell commands among the events, from s on
RECURSIVE IfaceAfter(_, _)
IfaceAfter(s, events) ==
    IF events = <<>> THEN s
    ELSE IfaceAfter(IF Head(events).kind = "cmd" THEN ApplyCommand(s, Head(events).cmd) ELSE s,
                    Tail(events))

\* the interface of a link task after the commands it has executed so far
Iface(t) == IfaceAfter(CleanIface, TaskTrace(t))

\* the interface of a link task when it requested its n-th sleep
IfaceAtSleep(t, n) ==
    LET tr == TaskTrace(t)
        upto == {i \in DOMAIN tr :
                    /\ tr[i].kind = "sleep"
                    /\ Cardinality({j \in 1..i : tr[j].kind = "sleep"}) = n}
    IN  IF upto = {} THEN CleanIface
        ELSE IfaceAfter(CleanIface, SubSeq(tr, 1, CHOOSE i \in upto : TRUE))

\* C11 (Add/Del inverse): whenever a link task has executed the synthesized Add
\* command list and then the synthesized Del command list, for every fault type,
\* pattern, arguments and filter the synthesizer accepts, the qdisc/filter tree
\* and the up/down state of the interface are those of before the Add.
C11_AddDelInverse ==
    \A t \in Tasks :
        IsLink(t) /\ ~FaultOpen(t) => Iface(t) = CleanIface

\* C11 witness: a filtered Add had installed the prio root, two or more
\* classifiers and the leaf by the time the task slept on it, and the Del that
\* followed has removed them all
C11_Witness ==
    \E t \in Tasks :
        /\ IsLink(t) /\ pc[t] = "done" /\ ~FaultOpen(t)
        /\ IfaceAtSleep(t, 2).root = "prio"
        /\ IfaceAtSleep(t, 2).root_filters >= 2
        /\ IfaceAtSleep(t, 2).leaf
        /\ Iface(t) = CleanIface

(***************************************************************************)
(* The command strings handed to the shell.                                *)
(***************************************************************************)
\* the string a command is: its pieces concatenated
RECURSIVE Flat(_)
Flat(cmd) == IF cmd = <<>> THEN "" ELSE Head(cmd) \o Flat(Tail(cmd))

\* the shell commands task t has executed, in order
Commands(t) ==
    LET evs == SelectSeq(trace, LAMBDA e : e.task = t /\ e.kind = "cmd")
    IN  [i \in DOMAIN evs |-> evs[i].cmd]

\* the pieces of a command of a target pid in which `nsenter` occurs: the head
\* of a base_command, and the prefix the Multi and Node executors put for a "|"
NsenterPieces(pid) ==
    {"nsenter --target ",
     "nsenter --target " \o pid \o " --net --pid ",
     "nsenter --target " \o pid \o " --net --pid --cgroup"}

\* the number of occurrences of `nsenter` in a command
NsenterCount(cmd, pid) ==
    Cardinality({i \in DOMAIN cmd : cmd[i] \in NsenterPieces(pid)})

\* C12 (link-scope prefix): when ns_pid is set, every command the Link injector
\* executes begins with exactly `nsenter --target {pid} --net --pid `.
C12_LinkPrefix ==
    \A t \in Tasks :
        IsLink(t) /\ cfg[t].ns_pid # None =>
            \A i \in DOMAIN Commands(t) :
                /\ Len(Commands(t)[i]) >= 3
                /\ Flat(SubSeq(Commands(t)[i], 1, 3))
                     = "nsenter --target " \o cfg[t].ns_pid \o " --net --pid "

\* C13 (namespace prefix count): when ns_pid is set, every command string an
\* injector hands to the shell begins with `nsenter --target {pid}` and holds
\* one `nsenter` more than it holds `|` characters.
C13_PrefixCount ==
    \A t \in Tasks :
        cfg[t].ns_pid # None =>
            \A i \in DOMAIN Commands(t) :
                LET cmd == Commands(t)[i] IN
                /\ Len(cmd) >= 2
                /\ cmd[1] = "nsenter --target " /\ cmd[2] = cfg[t].ns_pid
                /\ NsenterCount(cmd, cfg[t].ns_pid) = 1 + CountPiece(cmd, "|")

\* the prefix of the executor of task t
ExecutorPrefix(t) ==
    "nsenter --target " \o cfg[t].ns_pid
    \o (IF IsNode(t) THEN " --net --pid --cgroup " ELSE " --net --pid ")

\* C14 (pipeline rewrite): in the Multi and Node executors the executed string
\* has as many `|` characters as the command it was given, and each `|` is
\* immediately followed by the namespace prefix.
C14_PipelineRewrite ==
    \A i \in DOMAIN trace :
        LET t == trace[i].task IN
        /\ IsMulti(t) \/ IsNode(t)
        /\ trace[i].kind = "cmd"
        /\ i < Len(trace) /\ trace[i + 1].kind = "active" /\ trace[i + 1].task = t
        => LET executed == trace[i].cmd
               given == trace[i + 1].cmd
           IN  /\ CountPiece(executed, "|") = CountPiece(given, "|")
               /\ \A j \in DOMAIN executed :
                     executed[j] = "|" =>
                         /\ j + 3 <= Len(executed)
                         /\ Flat(SubSeq(executed, j + 1, j + 3)) = ExecutorPrefix(t)

\* C15 (no prefix without pid): for every injector, when ns_pid is None no
\* executed command string holds an `nsenter`.
C15_NoPrefixWithoutPid ==
    \A t \in Tasks :
        cfg[t].ns_pid = None =>
            \A i \in DOMAIN Commands(t) : NsenterCount(Commands(t)[i], None) = 0

\* C16 (None command): an executor call with command None runs no shell
\* command, makes the logger call matching its enable flag (set_fault_active
\* when enable is true, set_fault_inactive when false) and returns normally.
C16_NoneCommand ==
    \A t \in Tasks :
        LET tr == TaskTrace(t) IN
        \A i \in DOMAIN tr :
            tr[i].kind = "call" /\ tr[i].arg = 1 =>
                /\ pc[t] = "returned"
                /\ Len(tr) = i + 1
                /\ tr[i + 1].kind = (IF tr[i].enable THEN "active" ELSE "inactive")

\* a persistent or random fault of a link injector
LinkPersistentOrRandom(t) ==
    IsLink(t) /\ cfg[t].fault_pattern \in {"persistent", "random"}

\* the command list the link synthesizers return for task t: one command
\* without a protocol filter, the filtered list with one
SynthesizedList(t, enable) ==
    IF Contains("any", cfg[t].protocol)
    THEN <<make_nics_injection_command(cfg[t].ns_pid, cfg[t].device, cfg[t].fault_type,
              cfg[t].fault_pattern, cfg[t].fault_pattern_args, cfg[t].fault_args,
              IF enable THEN "add" ELSE "del").val>>
    ELSE make_filtered_nics_injection_commands(cfg[t].ns_pid, cfg[t].fault_pattern,
              cfg[t].fault_pattern_args, cfg[t].fault_type, cfg[t].fault_args, cfg[t].device,
              cfg[t].protocol, cfg[t].dst_ports, cfg[t].src_ports, enable).val

\* a command of task t has returned a non-zero exit status
SomeFailure(t) == retcode[t].add_failed \/ retcode[t].last # 0

\* C17 (command failure does not alter the timeline): whatever exit statuses
\* the commands return, no task ends by an exception after a command has
\* failed, a task that is Done has undone every activation, and a persistent or
\* random link fault whose active phase is over has executed the whole Add
\* list and then the whole Del list, as it does when every command returns zero.
C17_FailureKeepsTimeline ==
    \A t \in Tasks :
        /\ SomeFailure(t) => pc[t] # "crashed"
        /\ pc[t] = "done" => ~FaultOpen(t)
        /\ LinkPersistentOrRandom(t) /\ ActivePhaseOver(t) =>
              Commands(t) = SynthesizedList(t, TRUE) \o SynthesizedList(t, FALSE)

\* C17 witness: a command of a filtered Add list of root, three classifiers
\* and leaf has failed, and the task is Done with all six commands executed
C17_Witness ==
    \E t \in Tasks :
        /\ LinkPersistentOrRandom(t) /\ ~Contains("any", cfg[t].protocol)
        /\ pc[t] = "done"
        /\ retcode[t].add_failed
        /\ Len(SynthesizedList(t, TRUE)) = 5
        /\ Commands(t) = SynthesizedList(t, TRUE) \o SynthesizedList(t, FALSE)

\* the pattern the link scheduler passes to the synthesizers: 'persistent' in
\* a burst, 'random' in a degradation, else the pattern of the descriptor
SynthPattern(t) ==
    CASE cfg[t].fault_pattern = "burst" -> "persistent"
      [] cfg[t].fault_pattern = "degradation" -> "random"
      [] OTHER -> cfg[t].fault_pattern

\* the netem arguments of the unfiltered table: fault_args[0] for a persistent
\* delay, with `reorder (100 - pattern_args[0])%` for a random one; 100% for
\* the persistent and pattern_args[0]% for the random form of the other types
NetemArgs(t, pargs) ==
    IF cfg[t].fault_type = "delay"
    THEN Flat(Text(cfg[t].fault_args[1]))
         \o (IF SynthPattern(t) = "random"
             THEN " reorder " \o ToString(100 - pargs[1]) \o "%" ELSE "")
    ELSE IF SynthPattern(t) = "random" THEN ToString(pargs[1]) \o "%" ELSE "100%"

\* the one command of the template, for a verb
NetemCommand(t, verb, pargs) ==
    "tc qdisc " \o verb \o " dev " \o cfg[t].device \o " root netem "
    \o cfg[t].fault_type \o " " \o NetemArgs(t, pargs)

\* the interface command of `down`
IfconfigCommand(t, verb) ==
    "ifconfig " \o cfg[t].device \o (IF verb = "add" THEN " down" ELSE " up")

\* Every command an unfiltered link task has executed right after a synthesis
\* call is the command `expected` gives for the verb and the pattern arguments
\* of that call.
UnfilteredCommandsAre(t, expected(_, _)) ==
    \A i \in DOMAIN trace :
        /\ trace[i].task = t /\ trace[i].kind = "synth"
        /\ i < Len(trace) /\ trace[i + 1].kind = "cmd"
        => Flat(StripBase(trace[i + 1].cmd))
             = expected(IF trace[i].enable THEN "add" ELSE "del", trace[i].pargs)

\* an unfiltered link fault of a netem type
UnfilteredNetem(t) ==
    IsLink(t) /\ Contains("any", cfg[t].protocol) /\ cfg[t].fault_type \in NetemTypes

\* an unfiltered link fault of type down
UnfilteredDown(t) ==
    IsLink(t) /\ Contains("any", cfg[t].protocol) /\ cfg[t].fault_type = "down"

\* C18 as stated (unfiltered synthesis table): with filter protocol 'any' the
\* synthesizer returns for each verb the one command `tc qdisc {verb} dev
\* {device} root netem {type} {args}` of the table, and for `down`, under
\* whichever pattern, `ifconfig {d} down` for add and `ifconfig {d} up` for del.
C18_SynthesisTableAnyDown ==
    \A t \in Tasks :
        /\ UnfilteredNetem(t) =>
              UnfilteredCommandsAre(t, LAMBDA verb, pargs : NetemCommand(t, verb, pargs))
        /\ UnfilteredDown(t) =>
              UnfilteredCommandsAre(t, LAMBDA verb, pargs : IfconfigCommand(t, verb))

\* C18 (unfiltered synthesis table): with filter protocol 'any' the synthesizer
\* returns for each verb the one command `tc qdisc {verb} dev {device} root
\* netem {type} {args}` of the table, and for a persistent `down` (also in a
\* burst) `ifconfig {d} down` for add and `ifconfig {d} up` for del.
C18_SynthesisTable ==
    \A t \in Tasks :
        /\ UnfilteredNetem(t) =>
              UnfilteredCommandsAre(t, LAMBDA verb, pargs : NetemCommand(t, verb, pargs))
        /\ UnfilteredDown(t) /\ SynthPattern(t) = "persistent" =>
              UnfilteredCommandsAre(t, LAMBDA verb, pargs : IfconfigCommand(t, verb))

\* C18 witness: a random delay has run `netem delay 100ms reorder 90%` for add
\* and for del
C18_Witness ==
    \E t \in Tasks :
        /\ UnfilteredNetem(t) /\ cfg[t].ns_pid # None /\ pc[t] = "done"
        /\ Len(Commands(t)) = 2
        /\ Flat(StripBase(Commands(t)[1]))
             = "tc qdisc add dev eth0 root netem delay 100ms reorder 90%"
        /\ Flat(StripBase(Commands(t)[2]))
             = "tc qdisc del dev eth0 root netem delay 100ms reorder 90%"

\* a link fault with a protocol filter
Filtered(t) == IsLink(t) /\ ~Contains("any", cfg[t].protocol)

\* the Add lists the filtered synthesizer has returned to task t so far: one
\* for every enabling call of inject_nics that no exception left
FilteredAddLists(t) ==
    LET calls == {i \in DOMAIN trace :
                     trace[i].task = t /\ trace[i].kind = "synth" /\ trace[i].enable}
        Result(i) == make_filtered_nics_injection_commands(cfg[t].ns_pid,
                        SynthPattern(t), trace[i].pargs, cfg[t].fault_type,
                        cfg[t].fault_args, cfg[t].device, cfg[t].protocol,
                        cfg[t].dst_ports, cfg[t].src_ports, TRUE)
    IN  {Result(i).val : i \in {j \in calls : ~Result(j).exc}}

\* the root qdisc command: the prio root, or the ingress qdisc of a redirect
IsRootQdisc(cmd) ==
    /\ HasPiece(cmd, "tc qdisc add dev ")
    /\ HasPiece(cmd, " root handle 1: prio") \/ HasPiece(cmd, " handle ffff: ingress ")

\* a u32 classifier
IsClassifier(cmd) == HasPiece(cmd, "tc filter add dev ")

\* a classifier with a port match
HasPortMatch(cmd) == HasPiece(cmd, "match ip ")

\* a classifier that matches `which` (dport / sport) against port
MatchesPort(cmd, which, port) ==
    \E i \in 1..(Len(cmd) - 3) :
        cmd[i] = "match ip " /\ cmd[i + 1] = which /\ cmd[i + 3] = ToString(port)

\* C19 (filtered classifier count): the filtered Add list starts with the root
\* qdisc command, followed by one u32 classifier per destination port and
\* then one per source port; when both port sets are empty (empty lists or
\* not given) exactly one classifier without a port match is emitted, so the
\* list always contains at least one classifier.
C19_ClassifierCount ==
    \A t \in Tasks : Filtered(t) =>
        \A list \in FilteredAddLists(t) :
            LET d == cfg[t].dst_ports.ports
                s == cfg[t].src_ports.ports
                n == Len(d) + Len(s)
            IN  /\ IsRootQdisc(list[1])
                /\ Len(list) >= 1 + n
                /\ \A i \in DOMAIN d :
                      IsClassifier(list[1 + i]) /\ MatchesPort(list[1 + i], "dport", d[i])
                /\ \A i \in DOMAIN s :
                      /\ IsClassifier(list[1 + Len(d) + i])
                      /\ MatchesPort(list[1 + Len(d) + i], "sport", s[i])
                /\ n = 0 =>
                      Len(list) >= 2 /\ IsClassifier(list[2]) /\ ~HasPortMatch(list[2])
                /\ Cardinality({i \in DOMAIN list : IsClassifier(list[i])})
                     = IF n = 0 THEN 1 ELSE n

\* cmd ends with the pieces suffix
EndsWith(cmd, suffix) ==
    /\ Len(suffix) <= Len(cmd)
    /\ SubSeq(cmd, Len(cmd) - Len(suffix) + 1, Len(cmd)) = suffix

\* `action mirred egress {mode} dev {iface}` for the interface of fault_args
MirredAction(t, mode) ==
    <<" action mirred egress ", mode, " dev ">> \o Text(cfg[t].fault_args[1])

\* a netem or tbf leaf qdisc
IsLeaf(cmd) == HasPiece(cmd, "netem ") \/ HasPiece(cmd, "tbf rate ")

\* C20 (filtered redirect): for fault_type redirect with a protocol filter,
\* under every pattern that reaches the synthesizer (persistent and random),
\* every classifier in the Add list has `parent ffff:` instead of `parent 1:0`
\* and ends with `action mirred egress {mode} dev {iface}`, and the list
\* contains no netem/tbf leaf command.
C20_FilteredRedirect ==
    \A t \in Tasks :
        Filtered(t) /\ cfg[t].fault_type = "redirect"
        /\ SynthPattern(t) \in {"persistent", "random"} =>
            \A list \in FilteredAddLists(t) : \A i \in DOMAIN list :
                /\ IsClassifier(list[i]) =>
                      /\ HasPiece(list[i], "parent ffff:")
                      /\ ~HasPiece(list[i], "parent 1:0")
                      /\ \E mode \in {"redirect", "mirror"} :
                            EndsWith(list[i], MirredAction(t, mode))
                /\ ~IsLeaf(list[i])

\* the Del lists the filtered synthesizer has returned to task t so far, each
\* with the command the shell ran right after the call and whether a second
\* command followed it
FilteredDelCalls(t) ==
    LET calls == {i \in DOMAIN trace :
                     trace[i].task = t /\ trace[i].kind = "synth" /\ ~trace[i].enable}
        Result(i) == make_filtered_nics_injection_commands(cfg[t].ns_pid,
                        SynthPattern(t), trace[i].pargs, cfg[t].fault_type,
                        cfg[t].fault_args, cfg[t].device, cfg[t].protocol,
                        cfg[t].dst_ports, cfg[t].src_ports, FALSE)
    IN  {[list |-> Result(i).val,
          ran |-> IF i < Len(trace) /\ trace[i + 1].kind = "cmd"
                  THEN <<trace[i + 1].cmd>> ELSE <<>>,
          more |-> i + 2 < Len(trace) /\ trace[i + 3].kind = "cmd"] : i \in calls}

\* the one Del command of a filtered fault, as text (the synthesizer leaves a
\* blank after `ingress`, which the shell drops)
FilteredDelText(t) ==
    IF cfg[t].fault_type = "redirect"
    THEN "tc qdisc del dev " \o cfg[t].device \o " ingress "
    ELSE "tc qdisc del dev " \o cfg[t].device \o " root handle 1: prio"

\* C21 (filtered Del): for every filtered link fault the Del list has exactly
\* one command, `tc qdisc del dev {d} ingress` for redirect and `tc qdisc del
\* dev {d} root handle 1: prio` otherwise, independent of pattern, ports and
\* fault args; that one command is what the shell runs.
C21_FilteredDel ==
    \A t \in Tasks : Filtered(t) =>
        \A c \in FilteredDelCalls(t) :
            /\ Len(c.list) = 1
            /\ Flat(StripBase(c.list[1])) = FilteredDelText(t)
            /\ c.ran = c.list /\ ~c.more

\* C21 witness: a filtered redirect with ports has added its ingress qdisc and
\* its classifiers, and removed them with the one ingress command
C21_Witness ==
    \E t \in Tasks :
        /\ Filtered(t) /\ cfg[t].fault_type = "redirect" /\ pc[t] = "done"
        /\ cfg[t].dst_ports.ports # <<>>
        /\ Len(Commands(t)) >= 3
        /\ Flat(StripBase(Commands(t)[Len(Commands(t))])) = "tc qdisc del dev eth0 ingress "
        /\ \A i \in 1..(Len(Commands(t)) - 1) : ~HasPiece(Commands(t)[i], "tc qdisc del dev ")

\* `sub in text` for two strings
InText(sub, text) ==
    \E i \in 1..(Len(text) - Len(sub) + 1) : SubSeq(text, i, i + Len(sub) - 1) = sub

\* the Add commands the unfiltered synthesizer has returned for a random
\* redirect, each with its percentage
RandomRedirectAdds ==
    {[p |-> trace[i].pargs[1], fault_args |-> cfg[trace[i].task].fault_args,
      text |-> Flat(trace[i].cmd)] :
        i \in {j \in DOMAIN trace :
                  /\ trace[j].kind = "result" /\ trace[j].enable
                  /\ cfg[trace[j].task].fault_type = "redirect"
                  /\ cfg[trace[j].task].fault_pattern = "random"}}

\* floor((n1 * 10^5 + n0) * p / 100) in decimal, for 0 <= p <= 100 and numbers
\* of ten digits: the thousands and the last three digits are printed apart
Percent(n1, n0, p) ==
    LET y == (n0 * p) \div 100
        hi == n1 * p + y \div 1000
        lo == y % 1000
    IN  IF hi = 0 THEN ToString(lo)
        ELSE ToString(hi) \o (IF lo < 10 THEN "00" ELSE IF lo < 100 THEN "0" ELSE "")
                          \o ToString(lo)

\* the comparison of `meta random` against lt under the 32-bit mask
MetaRandom(lt) == "random mask 4294967295 lt " \o lt \o " "

\* C22 as stated (random-redirect threshold): for every percentage p =
\* pattern_args[0] in 0..100, the unfiltered random redirect Add command
\* compares `meta random` against lt = floor(2^32 * p / 100) under mask
\* 4294967295.
C22_ThresholdOfTwoPower32 ==
    \A a \in RandomRedirectAdds :
        a.p \in Percentages => InText(MetaRandom(Percent(42949, 67296, a.p)), a.text)

\* C22 (random-redirect threshold): for every percentage p = pattern_args[0]
\* in 0..100, the unfiltered random redirect Add command compares `meta
\* random` against lt = floor((2^32 - 1) * p / 100) under mask 4294967295.
C22_Threshold ==
    \A a \in RandomRedirectAdds :
        a.p \in Percentages => InText(MetaRandom(Percent(42949, 67295, a.p)), a.text)

\* C22 witness: the Add command of 50% compares against 2147483647
C22_Witness ==
    \E a \in RandomRedirectAdds :
        a.p = 50 /\ InText("random mask 4294967295 lt 2147483647 ", a.text)

\* a random redirect of 25% to eth1 whose mode is missing or neither mirror
\* nor redirect
Quarter(a) ==
    /\ a.p = 25 /\ Len(a.fault_args) >= 1 /\ Text(a.fault_args[1]) = <<"eth1">>
    /\ Len(a.fault_args) >= 2 => Text(a.fault_args[2]) \notin {<<"mirror">>, <<"redirect">>}

StressCpu(t) == IsNode(t) /\ cfg[t].fault_type = "stress_cpu"

\* the stress-ng commands executed so far, without the namespace prefix of
\* the executor, each with the load p it was synthesized for: the intensity of
\* the step in a degradation, else fault_args[0] with its default of 50
StressCommands ==
    {[task |-> trace[i].task,
      p |-> IF cfg[trace[i].task].fault_pattern = "degradation" THEN trace[i - 1].pargs[1]
            ELSE IF Len(cfg[trace[i].task].fault_args) >= 1
            THEN IntOf(cfg[trace[i].task].fault_args[1]) ELSE 50,
      cmd |-> SubSeq(trace[i].cmd, 4, Len(trace[i].cmd))] :
        i \in {j \in DOMAIN trace : trace[j].kind = "cmd" /\ StressCpu(trace[j].task)}}

\* the numbers a piece of a command prints
Parsed(piece) == {x \in 0..200 : ToString(x) = piece}

\* n = ceil(p * quota / period / 100), in whole numbers
IsCeilOfLoad(n, p, quota, period) ==
    100 * (n - 1) * period < p * quota /\ p * quota <= 100 * n * period

\* l = floor(p * quota / period / n) for n > 0, and 0 for no CPU at all
IsFloorPerCpu(l, n, p, quota, period) ==
    IF n > 0 THEN l * n * period <= p * quota /\ p * quota < (l + 1) * n * period
    ELSE l = 0

\* C24 (CPU stress sizing): for requested load p and cgroup fraction f =
\* quota/period, every stress-ng command (persistent, burst, degradation) is
\* `stress-ng -l {l} -t {s} --cpu {n} --cpu-method int64longdouble &` with
\* n = ceil(p*f/100) CPUs and per-CPU load l = floor(p*f/n).
C24_StressSizing ==
    \A c \in StressCommands :
        \E l \in Parsed(c.cmd[2]), s \in Parsed(c.cmd[4]), n \in Parsed(c.cmd[6]) :
            /\ Flat(c.cmd) = "stress-ng -l " \o ToString(l) \o " -t " \o ToString(s)
                             \o " --cpu " \o ToString(n) \o " --cpu-method int64longdouble &"
            /\ IsCeilOfLoad(n, c.p, cfg[c.task].cfs_quota_us, cfg[c.task].cfs_period_us)
            /\ IsFloorPerCpu(l, n, c.p, cfg[c.task].cfs_quota_us, cfg[c.task].cfs_period_us)

\* C24 witness: p = 40, f = 0.5 and an injection of 10 s have run
\* `stress-ng -l 20 -t 10 --cpu 1 --cpu-method int64longdouble &`
C24_Witness ==
    \E c \in StressCommands :
        /\ c.p = 40 /\ cfg[c.task].injection = 10000
        /\ 2 * cfg[c.task].cfs_quota_us = cfg[c.task].cfs_period_us
        /\ pc[c.task] = "done"
        /\ Flat(c.cmd) = "stress-ng -l 20 -t 10 --cpu 1 --cpu-method int64longdouble &"

\* a stress_cpu fault whose /proc/{pid}/cgroup is unreadable or has no
\* cpu,cpuacct line
CgroupUndiscovered(t) == StressCpu(t) /\ cfg[t].cgroup \in {"unreadable", "nomatch"}

\* an error has been logged for task t
ErrorLogged(t) == \E i \in DOMAIN trace : trace[i] = ErrorEv(t)

\* C25 (cgroup-discovery failure): for a stress_cpu fault whose
\* /proc/{pid}/cgroup is unreadable or has no cpu,cpuacct line, an error is
\* logged and the fault never activates: no stress-ng command is executed and
\* set_fault_active is never called for its tag.
C25_CgroupDiscoveryFailure ==
    \A t \in Tasks :
        CgroupUndiscovered(t) => ErrorLogged(t) /\ Injections(t) = <<>>

\* a custom degradation whose activation command has more than one `{}`, and
\* whose step length is not zero
ManyPlaceholders(t) ==
    /\ IsNode(t) /\ cfg[t].fault_type = "custom" /\ cfg[t].fault_pattern = "degradation"
    /\ Len(cfg[t].fault_args) >= 1
    /\ CountPiece(Text(cfg[t].fault_args[1]), "{}") > 1
    /\ PatternArg(t, 2, 1000) > 0

\* C26 (custom degradation placeholders): when the activation command of a
\* custom degradation fault contains more than one `{}` placeholder, an error
\* is logged and the task does not fail: it still runs all its degradation
\* steps, the post-injection sleep, and reaches Done.
C26_ManyPlaceholders ==
    \A t \in Tasks :
        ManyPlaceholders(t) =>
            /\ pc[t] # "crashed"
            /\ ActivePhaseOver(t) =>
                  /\ ErrorLogged(t)
                  /\ Activations(t) = cfg[t].injection \div PatternArg(t, 2, 1000)
            /\ pc[t] = "done" => Sleeps(t)[Len(Sleeps(t))] = SleepEv(t, cfg[t].post)

\* a Node custom fault under a pattern the injector knows, whose burst period
\* or step length is not zero
CustomFault(t) ==
    /\ IsNode(t) /\ cfg[t].fault_type = "custom"
    /\ cfg[t].fault_pattern \in {"persistent", "burst", "degradation"}
    /\ cfg[t].fault_pattern = "burst" => BurstConfig(cfg[t].fault_pattern_args)[2] > 0
    /\ cfg[t].fault_pattern = "degradation" => PatternArg(t, 2, 1000) > 0

\* the commands handed to the logger at the activations of t, and the
\* commands run at its deactivations without the prefix of the executor
ActivationCommands(t) ==
    {trace[i].cmd : i \in {j \in DOMAIN trace : trace[j].task = t /\ trace[j].kind = "active"}}

DeactivationCommands(t) ==
    {SubSeq(trace[i].cmd, 4, Len(trace[i].cmd)) :
        i \in {j \in DOMAIN trace :
                  trace[j].task = t /\ trace[j].kind = "cmd" /\ ~trace[j].enable}}

\* C27 (missing custom commands): for a Node custom fault under every pattern
\* (persistent, burst, degradation), fault_args[0] is the activation command
\* and fault_args[1], if present, the deactivation command; with empty
\* fault_args an error is logged and the timeline continues to Done using
\* no-command (dummy) activation and deactivation.
C27_MissingCustomCommands ==
    \A t \in Tasks :
        CustomFault(t) =>
            /\ Len(cfg[t].fault_args) >= 1 /\ cfg[t].fault_pattern # "degradation" =>
                  ActivationCommands(t) \subseteq {Text(cfg[t].fault_args[1])}
            /\ DeactivationCommands(t)
                  \subseteq (IF Len(cfg[t].fault_args) >= 2
                             THEN {Text(cfg[t].fault_args[2])} ELSE {})
            /\ cfg[t].fault_args = <<>> =>
                  /\ pc[t] # "crashed"
                  /\ Commands(t) = <<>>
                  /\ ActivePhaseOver(t) => ErrorLogged(t) /\ ~FaultOpen(t)
                  /\ ActivationCommands(t) \subseteq {<<"Dummy command, no action taken">>}

\* C28 (StressCpu burst): in every cycle of a Node stress_cpu burst the
\* stress-ng `-t` duration and the active sleep are at least 1 second, and the
\* deactivation executes no shell command but still calls
\* set_fault_inactive(tag).
C28_StressBurst ==
    \A t \in Tasks :
        StressCpu(t) /\ cfg[t].fault_pattern = "burst" =>
            LET events == TaskTrace(t) IN
            /\ \A i \in DOMAIN events :
                  events[i].kind = "cmd" =>
                      /\ events[i].enable
                      /\ \E s \in Parsed(events[i].cmd[7]) :
                            /\ s >= 1
                            /\ events[i].cmd[6] = " -t "
                            /\ events[i + 2] = SleepEv(t, 1000 * s)
                      /\ i + 3 <= Len(events) => events[i + 3] = InactiveEv(t)
            /\ ActivePhaseOver(t) => ~FaultOpen(t)

\* C28 witness: a burst of 500 ms per 2000 ms over 5 s has run `-t 1` twice,
\* slept 1000 ms active and 1000 ms idle in each cycle and logged two
\* deactivations without a command
C28_Witness ==
    \E t \in Tasks :
        /\ StressCpu(t) /\ cfg[t].fault_pattern = "burst" /\ pc[t] = "done"
        /\ cfg[t].fault_pattern_args = <<500, 2000>> /\ cfg[t].injection = 5000
        /\ Len(Commands(t)) = 2
        /\ \A i \in 1..2 : Commands(t)[i][7] = "1"
        /\ Len(SelectSeq(TaskTrace(t), LAMBDA e : e = InactiveEv(t))) = 2
        /\ [i \in DOMAIN Sleeps(t) |-> Sleeps(t)[i].arg]
             = <<cfg[t].pre, 1000, 1000, 1000, 1000, cfg[t].post>>

\* the keys of the top-level JSON object a command carries, and the values
\* they are mapped to
JsonKeys(cmd) == {cmd[i + 1] : i \in {j \in 1..(Len(cmd) - 3) : cmd[j] = "\""}}

JsonValues(cmd) == {cmd[i + 3] : i \in {j \in 1..(Len(cmd) - 3) : cmd[j] = "\""}}

\* what a command pipes its JSON object to: the text after the closing quote
PipedTo(cmd) ==
    LET close == CHOOSE i \in DOMAIN cmd : cmd[i] = "' "
    IN  Flat(SubSeq(cmd, close + 1, Len(cmd)))

\* cmd, as the shell ran it, is the command `given` behind the three pieces
\* of the executor's prefix, whatever the executor made of the pipe
RanAs(cmd, given) ==
    /\ Len(cmd) = 3 + Len(given)
    /\ \A j \in DOMAIN given : given[j] # "|" => cmd[3 + j] = given[j]

\* C29 (Multi injector reset): the Del command carries a JSON object whose key
\* set equals the key set of the top-level object of the Add config, each key
\* mapped to {outgoing: {}, incoming: {}}, piped to the same `tcset /dev/stdin
\* --import-setting` tool; the Add/Del pair is fixed at construction and
\* reused unchanged in every activation.
C29_MultiReset ==
    \A t \in Tasks : IsMulti(t) =>
        LET add == inject_command(t)
            del == eject_command(t)
        IN  /\ JsonKeys(del) = JsonKeys(add)
            /\ JsonKeys(add) = {cfg[t].interfaces[i] : i \in DOMAIN cfg[t].interfaces}
            /\ JsonValues(del) = {"{\"outgoing\": {}, \"incoming\": {}}"}
            /\ PipedTo(del) = "| tcset /dev/stdin --import-setting"
            /\ PipedTo(add) = PipedTo(del)
            /\ \A i \in DOMAIN trace :
                  /\ trace[i].task = t /\ trace[i].kind = "active" => trace[i].cmd = add
                  /\ trace[i].task = t /\ trace[i].kind = "cmd" =>
                        RanAs(trace[i].cmd, IF trace[i].enable THEN add ELSE del)

\* C29 witness: a burst on eth0 and eth1 is Done after two cycles, each with
\* the same reset of both interfaces
C29_Witness ==
    \E t \in Tasks :
        /\ IsMulti(t) /\ cfg[t].fault_pattern = "burst" /\ pc[t] = "done"
        /\ Len(Commands(t)) = 4
        /\ JsonKeys(Commands(t)[2]) = {"eth0", "eth1"}
        /\ Commands(t)[4] = Commands(t)[2] /\ Commands(t)[3] = Commands(t)[1]
        /\ JsonValues(Commands(t)[4]) = {"{\"outgoing\": {}, \"incoming\": {}}"}

\* the persistent timeline: one Add, sleep injection_time, one Del, between
\* the pre- and the post-injection sleep
PersistentTimeline(t) ==
    <<<<"sleep", cfg[t].pre>>, <<"Add", 0>>, <<"sleep", cfg[t].injection>>, <<"Del", 0>>>>
    \o (IF pc[t] = "post" THEN <<>> ELSE <<<<"sleep", cfg[t].post>>>>)

\* C30 (pattern dispatch): for every injector, fault_pattern 'random' is
\* dispatched to the same persistent timeline as 'persistent' (one Add, sleep
\* injection_time, one Del), 'burst' to the burst timeline and 'degradation'
\* to the degradation timeline: as many activations as the injection time
\* holds periods, or steps.
C30_PatternDispatch ==
    \A t \in Tasks :
        ActivePhaseOver(t) /\ KnownType(t) =>
            /\ cfg[t].fault_pattern \in {"persistent", "random"} =>
                  Timeline(TaskTrace(t)) = PersistentTimeline(t)
            /\ cfg[t].fault_pattern = "burst" =>
                  Activations(t)
                    = cfg[t].injection \div BurstConfig(cfg[t].fault_pattern_args)[2]
            /\ cfg[t].fault_pattern = "degradation" =>
                  Activations(t) = cfg[t].injection \div PatternArg(t, 2, 1000)

\* a fault whose pattern its injector runs as the persistent timeline of
\* _inject_persistent_or_random_pattern or of MultiInjector._inject_persistent
PersistentUnfiltered(t) ==
    \/ IsLink(t) /\ cfg[t].fault_pattern \in {"persistent", "random"}
                 /\ Contains("any", cfg[t].protocol)
    \/ IsMulti(t) /\ cfg[t].fault_pattern = "persistent"

\* the commands, logger calls and sleeps of task t, in order
Steps(t) ==
    SelectSeq(trace, LAMBDA e : e.task = t /\ e.kind \in {"cmd", "active", "inactive", "sleep"})

\* what a step is: its kind, whether it enables, and the time of a sleep
StepKinds(t) == [i \in DOMAIN Steps(t) |-> <<Steps(t)[i].kind, Steps(t)[i].enable, Steps(t)[i].arg>>]

\* C31 (persistent timeline): a persistent (or random) unfiltered fault
\* produces exactly one activation and one deactivation: Add is executed and
\* logged active, the task sleeps injection_time, then Del is executed and
\* logged inactive, giving exactly one active/inactive logger pair for the tag.
C31_PersistentTimeline ==
    \A t \in Tasks : PersistentUnfiltered(t) =>
        /\ Len(LoggerCalls(t)) <= 2
        /\ ActivePhaseOver(t) =>
              /\ SubSeq(StepKinds(t), 1, 6)
                   = <<<<"sleep", FALSE, cfg[t].pre>>,
                       <<"cmd", TRUE, 0>>, <<"active", TRUE, 0>>,
                       <<"sleep", FALSE, cfg[t].injection>>,
                       <<"cmd", FALSE, 0>>, <<"inactive", FALSE, 0>>>>
              /\ Len(StepKinds(t)) = IF pc[t] = "post" THEN 6 ELSE 7

\* C31 witness: a random loss without a filter is Done with one Add, one Del
\* and one active/inactive pair
C31_Witness ==
    \E t \in Tasks :
        /\ PersistentUnfiltered(t) /\ pc[t] = "done"
        /\ IsLink(t) /\ cfg[t].fault_pattern = "random" /\ cfg[t].fault_type = "loss"
        /\ [i \in DOMAIN LoggerCalls(t) |-> LoggerCalls(t)[i].kind] = <<"active", "inactive">>
        /\ Len(Commands(t)) = 2

\* task t is inside a step: started, not suspended in a sleep, and not over
MidStep(t) == pc[t] \notin (SleepPcs \cup {"new", "done", "crashed", "cancelled"})

\* the events of the trace change hands only behind a sleep of the task that
\* was running, unless that task never appears again
HandedOverAtSleeps ==
    \A j \in 2..Len(trace) :
        trace[j].task # trace[j - 1].task /\ trace[j - 1].kind # "sleep" =>
            \A k \in (j + 1)..Len(trace) : trace[k].task # trace[j - 1].task

\* C32 (atomic steps across faults): with several fault tasks on one event
\* loop, tasks interleave only at sleeps; no command or logger call of another
\* task occurs between a task's command execution and the logger call for it,
\* nor between the commands of one filtered Add list, nor between a
\* degradation step's Del and the next step's Add: only the running task is
\* inside a step, and only the running task (or one that is just started)
\* appends events.
C32_AtomicSteps ==
    /\ [](\A t \in Tasks : MidStep(t) => running = t)
    /\ [](HandedOverAtSleeps)
    /\ [](\A i \in DOMAIN trace :
             trace[i].kind = "cmd" =>
                 /\ i < Len(trace) /\ trace[i + 1].task = trace[i].task
                 /\ trace[i + 1].kind \in {"cmd", "active", "inactive"})
    /\ [][\A i \in (Len(trace) + 1)..Len(trace') :
             \/ running = trace'[i].task
             \/ running = Idle /\ pc[trace'[i].task] = "new"]_vars

\* C32 witness: the two steps of a degradation with its Del followed at once
\* by the next Add, a filtered Add list of five commands of the other task
\* between its first Add and that Del
C32_Witness ==
    \E i, j \in DOMAIN trace :
        /\ i < j /\ j + 2 <= Len(trace)
        /\ trace[i].task = "f2" /\ trace[i].kind = "cmd" /\ trace[i].enable
        /\ trace[j].task = "f2" /\ trace[j].kind = "inactive"
        /\ trace[j + 1].task = "f2" /\ trace[j + 1].kind = "synth"
        /\ trace[j + 2].task = "f2" /\ trace[j + 2].kind = "cmd" /\ trace[j + 2].enable
        /\ Len(SelectSeq(SubSeq(trace, i, j),
                         LAMBDA e : e.task = "f1" /\ e.kind = "cmd" /\ e.enable)) = 5

\* the activations and deactivations of task t, in order
AddsAndDels(t) ==
    LET line == SelectSeq(Timeline(TaskTrace(t)), LAMBDA x : x[1] \in {"Add", "Del"})
    IN  [i \in DOMAIN line |-> line[i][1]]

\* activations and deactivations alternate, the first is an activation
Alternating(t) ==
    \A i \in DOMAIN AddsAndDels(t) :
        AddsAndDels(t)[i] = IF i % 2 = 1 THEN "Add" ELSE "Del"

\* C33 (Add/Del alternation within one fault): in every run of a fault task,
\* under any interleaving with other tasks, its activations and deactivations
\* strictly alternate starting with an activation and ending with a
\* deactivation; a second activation never happens while the previous one has
\* not been deactivated.
C33_Alternation ==
    \A t \in Tasks :
        /\ Alternating(t)
        /\ Ended(t) /\ AddsAndDels(t) # <<>> =>
              AddsAndDels(t)[Len(AddsAndDels(t))] = "Del"

\* the lengths of the sleeps task t started right after an activation
StepSleeps(t) ==
    LET tt == TaskTrace(t)
        at == SelectSeq([i \in DOMAIN tt |-> i],
                        LAMBDA i : /\ i > 1
                                   /\ tt[i].kind = "sleep"
                                   /\ tt[i - 1].kind \in {"cmd", "active"}
                                   /\ tt[i - 1].enable)
    IN  [n \in DOMAIN at |-> tt[at[n]].arg]

\* C34 (degradation step timing): in every degradation run of every injector
\* and fault type (including Node stress_cpu with a step length that is not a
\* whole number of seconds), each step sleeps exactly step_length between its
\* activation and deactivation, so the active phase sleeps k * step_length in
\* total.
C34_StepTiming ==
    \A t \in Tasks :
        Degradation(t) =>
            /\ \A n \in DOMAIN StepSleeps(t) : StepSleeps(t)[n] = PatternArg(t, 2, 1000)
            /\ ActivePhaseOver(t) /\ PatternArg(t, 2, 1000) > 0 =>
                  Len(StepSleeps(t)) = cfg[t].injection \div PatternArg(t, 2, 1000)

\* the interfaces the commands of task t act on
Targets(t) ==
    IF IsLink(t) THEN {cfg[t].device}
    ELSE IF IsMulti(t) THEN {cfg[t].interfaces[i] : i \in DOMAIN cfg[t].interfaces}
    ELSE {}

\* no other fault task targets an interface of t
TargetsApart(t) == \A u \in Tasks \ {t} : Targets(u) \cap Targets(t) = {}

\* the state of interface device after the commands all tasks have executed on it
DeviceIface(device) ==
    IfaceAfter(CleanIface,
               SelectSeq(trace, LAMBDA e :
                   /\ e.kind = "cmd"
                   /\ \/ IsLink(e.task) /\ cfg[e.task].device = device
                      \/ IsMulti(e.task) /\ HasPiece(e.cmd, device)))

\* the last logger call of t was set_fault_active
LoggedActive(t) ==
    LoggerCalls(t) # <<>> /\ LoggerCalls(t)[Len(LoggerCalls(t))].kind = "active"

\* a root or ingress qdisc is installed on the interface, or it is down
FaultInstalled(s) == s.root # "none" \/ s.ingress \/ ~s.up

\* C35 (topology restored outside activations): provided no two concurrently
\* live faults target the same interface, in every interleaving of link fault
\* tasks the state of an interface equals its pre-injection state whenever its
\* fault is in PreWait, in the idle sleep of a burst cycle, in PostWait or Done;
\* and a fault currently logged active has its qdisc installed.
C35_TopologyRestored ==
    \A t \in Tasks :
        IsLink(t) /\ TargetsApart(t) =>
            /\ \/ Phase(pc[t]) \in {"PreWait", "PostWait", "Done"}
               \/ pc[t] = "sleep_burst_off"
               => DeviceIface(cfg[t].device) = CleanIface
            /\ LoggedActive(t) => FaultInstalled(DeviceIface(cfg[t].device))

\* the arguments of descriptor d are well-formed: a pattern and a protocol of
\* the data model, both numbers of a link burst, the percentage of a link random
\* fault, the arguments the fault type needs, at most one placeholder in a
\* custom command, no port filter on an interface fault, a cgroup that can be read
WellFormed(d) ==
    /\ d.inj = "link" /\ Contains("burst", d.fault_pattern) => Len(d.fault_pattern_args) >= 2
    /\ d.cgroup = "ok"
    /\ d.fault_pattern \in {"persistent", "burst", "degradation", "random"}
    /\ d.protocol \in {"any", "TCP", "UDP"}
    /\ d.fault_type = "custom" =>
          /\ Len(d.fault_args) >= 1
          /\ CountPiece(Text(d.fault_args[1]), "{}") <= 1
    /\ d.fault_type \in {"delay", "bottleneck", "redirect"} => Len(d.fault_args) >= 1
    /\ d.inj = "link" /\ Contains("random", d.fault_pattern) => Len(d.fault_pattern_args) >= 1
    /\ d.inj = "link" /\ d.fault_type = "down" => Contains("any", d.protocol)

\* C36 (termination): for every descriptor with finite non-negative
\* pre/injection/post timings and well-formed args (including a burst period or
\* degradation step length of 0 ms), go() eventually reaches Done after a finite
\* number of Add/Del cycles, under fair scheduling of the event loop.
C36_Termination == WellFormed(cfg["f1"]) => <>(pc["f1"] = "done")

====
